---- MODULE Spec2Model ----
(***************************************************************************)
(* Model of winappdbg/process.py: the process snapshot container           *)
(* (_ProcessContainer), the handle of a Process, its memory operations     *)
(* (memory map, read, peek, poke) and its memory snapshot / restore        *)
(* engine.  The operating system (the win32 wrappers) is the environment:  *)
(* its answers are inputs drawn with \E.                                   *)
(***************************************************************************)
EXTENDS Integers, Sequences, FiniteSets, TLC

\* ------------------------------------------------------------------ bounds
NPages == 3
PageSize == 2
NThreads == 2
MaxExternal == 1
MaxPid == 3
NRights == 2
MaxOpens == 3

\* --------------------------------------------------------------- constants
MEM_PRIVATE == 131072
MEM_MAPPED == 262144
MEM_IMAGE == 16777216
\* win32.GetCurrentProcessId(): the ID of the inspecting process.
our_pid == 1

\* Python's None where an address or a size is expected.
None == 0 - 1

Pages == 0 .. (NPages - 1)
AddrLimit == NPages * PageSize
Addrs == 0 .. (AddrLimit - 1)
Bytes == 0 .. 1
Tids == 1 .. NThreads

PageOf(a) == a \div PageSize
align_address_to_page_start(a) == a - (a % PageSize)
align_address_to_page_end(a) == align_address_to_page_start(a) + PageSize

Min(a, b) == IF a < b THEN a ELSE b
Max(a, b) == IF a > b THEN a ELSE b

WriteProtects == {"PAGE_READWRITE", "PAGE_WRITECOPY", "PAGE_EXECUTE_READWRITE"}
ExecProtects == {"PAGE_EXECUTE_READ", "PAGE_EXECUTE_READWRITE"}
NoContentProtects == {"PAGE_NOACCESS", "PAGE_GUARD"}

\* --------------------------------------- win32.MemoryBasicInformation
is_free(mbi) == mbi.State = "MEM_FREE"
is_reserved(mbi) == mbi.State = "MEM_RESERVE"
is_commited(mbi) == mbi.State = "MEM_COMMIT"
has_content(mbi) == is_commited(mbi) /\ mbi.Protect \notin NoContentProtects
is_writeable(mbi) == has_content(mbi) /\ mbi.Protect \in WriteProtects
is_executable(mbi) == has_content(mbi) /\ mbi.Protect \in ExecProtects
is_image(mbi) == mbi.Type = MEM_IMAGE
is_mapped(mbi) == mbi.Type = MEM_MAPPED

\* The copy constructor MemoryBasicInformation(mbi): every field is carried.
CopyMbi(mbi) == mbi

\* ------------------------------------------------ the target's memory
\* M.pg[p] are the attributes of page p, M.by[a] the byte at address a.
FreePage == [State |-> "MEM_FREE", Protect |-> "PAGE_NOACCESS", Type |-> 0]
ReservedPage == [State |-> "MEM_RESERVE", Protect |-> "NONE", Type |-> MEM_PRIVATE]
CommittedPage(prot, type) == [State |-> "MEM_COMMIT", Protect |-> prot, Type |-> type]

PagesOfRange(a, size) == {p \in Pages : a < (p + 1) * PageSize /\ p * PageSize < a + size}
InRange(a, size) == a >= 0 /\ size > 0 /\ a + size <= AddrLimit
AddrsOfPages(ps) == {a \in Addrs : PageOf(a) \in ps}

SetPages(M, ps, attr, zero) ==
    [pg |-> [p \in Pages |-> IF p \in ps THEN attr ELSE M.pg[p]],
     by |-> [a \in Addrs |-> IF zero /\ PageOf(a) \in ps THEN 0 ELSE M.by[a]]]

\* End (exclusive, a page number) of the run of pages that starts at page p
\* and shares its attributes.
RunEnd(M, p) ==
    CHOOSE e \in (p + 1) .. NPages :
        /\ \A q \in p .. (e - 1) : M.pg[q] = M.pg[p]
        /\ (e = NPages \/ M.pg[e] # M.pg[p])

\* win32.VirtualQueryEx: the region that starts at the page of the address.
VirtualQueryEx(M, a) ==
    LET p == PageOf(a) IN
    [isMbi |-> TRUE,
     BaseAddress |-> align_address_to_page_start(a),
     RegionSize |-> (RunEnd(M, p) - p) * PageSize,
     State |-> M.pg[p].State,
     Protect |-> M.pg[p].Protect,
     Type |-> M.pg[p].Type,
     content |-> << >>,
     filename |-> ""]

\* win32.VirtualAllocEx at the address the system chose (ret).
\* kind is "MEM_RESERVE", "MEM_RESERVE|MEM_COMMIT" or "MEM_COMMIT".
AllocValid(M, a, size, kind) ==
    /\ InRange(a, size)
    /\ \A p \in PagesOfRange(a, size) :
          IF kind = "MEM_COMMIT" THEN M.pg[p].State # "MEM_FREE"
          ELSE M.pg[p].State = "MEM_FREE"

VirtualAllocEx(M, ret, size, kind, prot) ==
    LET ps == PagesOfRange(ret, size) IN
    IF kind = "MEM_RESERVE"
    THEN SetPages(M, ps, ReservedPage, TRUE)
    ELSE [pg |-> [p \in Pages |->
                    IF p \in ps /\ M.pg[p].State # "MEM_COMMIT"
                    THEN CommittedPage(prot, IF M.pg[p].State = "MEM_FREE"
                                             THEN MEM_PRIVATE ELSE M.pg[p].Type)
                    ELSE IF p \in ps THEN [M.pg[p] EXCEPT !.Protect = prot]
                    ELSE M.pg[p]],
          by |-> [a \in Addrs |->
                    IF PageOf(a) \in ps /\ M.pg[PageOf(a)].State # "MEM_COMMIT"
                    THEN 0 ELSE M.by[a]]]

\* win32.VirtualFreeEx.  kind is "MEM_DECOMMIT", "MEM_RELEASE" or
\* "MEM_DECOMMIT|MEM_RELEASE".
VirtualFreeEx(M, a, size, kind) ==
    LET ps == PagesOfRange(a, size) IN
    IF kind = "MEM_DECOMMIT"
    THEN [pg |-> [p \in Pages |->
                    IF p \in ps /\ M.pg[p].State = "MEM_COMMIT"
                    THEN [State |-> "MEM_RESERVE", Protect |-> "NONE",
                          Type |-> M.pg[p].Type]
                    ELSE M.pg[p]],
          by |-> [b \in Addrs |-> IF PageOf(b) \in ps THEN 0 ELSE M.by[b]]]
    ELSE SetPages(M, ps, FreePage, TRUE)

\* win32.VirtualProtectEx works on committed pages only.
ProtectValid(M, a, size) ==
    /\ InRange(a, size)
    /\ \A p \in PagesOfRange(a, size) : M.pg[p].State = "MEM_COMMIT"

VirtualProtectEx(M, a, size, prot) ==
    [M EXCEPT !.pg = [p \in Pages |->
        IF p \in PagesOfRange(a, size) THEN [M.pg[p] EXCEPT !.Protect = prot]
        ELSE M.pg[p]]]

\* win32.WriteProcessMemory copies the longest prefix of the buffer that
\* lies in committed writeable pages and returns its length.
Writeable(M, a) ==
    /\ a \in Addrs
    /\ M.pg[PageOf(a)].State = "MEM_COMMIT"
    /\ M.pg[PageOf(a)].Protect \in WriteProtects

WritePrefix(M, a, n) ==
    CHOOSE k \in 0 .. n :
        /\ \A i \in 0 .. (k - 1) : Writeable(M, a + i)
        /\ (k = n \/ ~Writeable(M, a + k))

WriteProcessMemory(M, a, buf) ==
    LET k == WritePrefix(M, a, Len(buf)) IN
    [M |-> [M EXCEPT !.by = [b \in Addrs |->
                IF b >= a /\ b < a + k THEN buf[b - a + 1] ELSE M.by[b]]],
     r |-> k]

\* win32.ReadProcessMemory of a range of committed pages.
ReadProcessMemory(M, a, n) == [i \in 1 .. n |-> M.by[a + i - 1]]

Readable(M, a) ==
    /\ a \in Addrs
    /\ M.pg[PageOf(a)].State = "MEM_COMMIT"
    /\ M.pg[PageOf(a)].Protect \notin NoContentProtects

\* Every byte of [a, a + n) lies in a committed page that is neither a guard
\* page nor without access.
AllReadable(M, a, n) == \A i \in 0 .. (n - 1) : Readable(M, a + i)

\* ------------------------------------------------- Process: memory calls
\* One operating system call issued by the program, as it is logged.
Call(op, addr, size, kind, prot, buf) ==
    [op |-> op, addr |-> addr, size |-> size, kind |-> kind, prot |-> prot,
     buf |-> buf]

\* Process.is_buffer: the loop re-queries the same address until the sizes
\* of the regions it saw add up to the size asked for.
RECURSIVE is_buffer(_, _, _)
is_buffer(M, address, size) ==
    IF size <= 0 THEN TRUE
    ELSE IF address \notin Addrs THEN FALSE
    ELSE LET mbi == VirtualQueryEx(M, address) IN
         IF ~has_content(mbi) THEN FALSE
         ELSE is_buffer(M, address, size - mbi.RegionSize)

\* Process.is_buffer_executable_and_writeable: the same loop, with the test
\* of line 2686.
RECURSIVE is_buffer_executable_and_writeable(_, _, _)
is_buffer_executable_and_writeable(M, address, size) ==
    IF size <= 0 THEN TRUE
    ELSE IF address \notin Addrs THEN FALSE
    ELSE LET mbi == VirtualQueryEx(M, address) IN
         IF ~is_executable(mbi) THEN FALSE
         ELSE is_buffer_executable_and_writeable(M, address, size - mbi.RegionSize)

\* Process.read: err is "none" or the error raised, issued tells whether
\* win32.ReadProcessMemory was called.
read(M, lpBaseAddress, nSize) ==
    IF ~is_buffer(M, lpBaseAddress, nSize)
    THEN [err |-> "ERROR_INVALID_ADDRESS", data |-> << >>, issued |-> FALSE]
    ELSE IF \E i \in 0 .. (nSize - 1) : ~Readable(M, lpBaseAddress + i)
    THEN [err |-> "WindowsError", data |-> << >>, issued |-> TRUE]
    ELSE [err |-> "none", data |-> ReadProcessMemory(M, lpBaseAddress, nSize),
          issued |-> TRUE]

\* The temporary protection Process.poke chooses ("None": no change).
PokeProtect(mbi) ==
    IF is_image(mbi) \/ is_mapped(mbi) THEN "PAGE_WRITECOPY"
    ELSE IF is_writeable(mbi) THEN "None"
    ELSE IF is_executable(mbi) THEN "PAGE_EXECUTE_READWRITE"
    ELSE "PAGE_READWRITE"

\* Lines 1837-1850: the temporary protection, when one is wanted and the
\* system accepts it.
PokeReprotect(M, a, n, want, protOk) ==
    IF protOk THEN VirtualProtectEx(M, a, n, want) ELSE M

\* Lines 1851-1852: the write.  fault = "write" makes WriteProcessMemory raise.
PokeWrite(M, a, lpBuffer, fault) ==
    IF fault = "write" THEN [M |-> M, r |-> 0]
    ELSE WriteProcessMemory(M, a, lpBuffer)

\* Lines 1853-1856: the finally clause puts mbi.Protect back.
PokeFinally(wr, a, n, protOk, prot, fault, calls) ==
    [err |-> IF fault = "write" THEN "WindowsError" ELSE "none",
     M |-> IF protOk THEN VirtualProtectEx(wr.M, a, n, prot) ELSE wr.M,
     r |-> wr.r,
     calls |-> calls]

\* The operating system calls of one poke, in order.
PokeCalls(a, lpBuffer, want, protOk, prot) ==
    (IF want # "None"
     THEN << Call("VirtualProtectEx", a, Len(lpBuffer), "", want, << >>) >>
     ELSE << >>)
    \o << Call("WriteProcessMemory", a, Len(lpBuffer), "", "", lpBuffer) >>
    \o (IF protOk
        THEN << Call("VirtualProtectEx", a, Len(lpBuffer), "", prot, << >>) >>
        ELSE << >>)

PokeWith(M, a, lpBuffer, fault, want, protOk, prot) ==
    PokeFinally(PokeWrite(PokeReprotect(M, a, Len(lpBuffer), want, protOk),
                          a, lpBuffer, fault),
                a, Len(lpBuffer), protOk, prot, fault,
                PokeCalls(a, lpBuffer, want, protOk, prot))

PokeRegion(M, a, lpBuffer, fault, mbi) ==
    IF ~has_content(mbi)
    THEN [err |-> "WindowsError", M |-> M, r |-> 0, calls |-> << >>]
    ELSE PokeWith(M, a, lpBuffer, fault, PokeProtect(mbi),
                  PokeProtect(mbi) # "None" /\ ProtectValid(M, a, Len(lpBuffer)),
                  mbi.Protect)

\* Process.poke.
poke(M, lpBaseAddress, lpBuffer, fault) ==
    IF lpBaseAddress \notin Addrs
    THEN [err |-> "WindowsError", M |-> M, r |-> 0, calls |-> << >>]
    ELSE PokeRegion(M, lpBaseAddress, lpBuffer, fault,
                    VirtualQueryEx(M, lpBaseAddress))

\* Lines 1412-1415: fewer bytes written than asked is an error.
WriteCheck(p, n) ==
    IF p.err = "none" /\ p.r # n THEN [p EXCEPT !.err = "WindowsError"] ELSE p

\* Process.write: poke, and an error when fewer bytes were written.
write(M, lpBaseAddress, lpBuffer, fault) ==
    WriteCheck(poke(M, lpBaseAddress, lpBuffer, fault), Len(lpBuffer))

\* ------------------------------------------- Process.__restore_mbi
\* Inputs of one region restore: fault names the operating system call that
\* fails in it ("none", "alloc", "moved", "free", "protect", "write"); with
\* "moved" the allocation succeeds at address ret instead of the one asked.
Faults == {"none", "alloc", "moved", "free", "protect", "write"}

\* The state transition, lines 3072-3152: first the allocations.
\* Variant: the allocation that came back elsewhere is not released.
RestoreAlloc_keepsStray(M, new_mbi, old_mbi, kind, fault, ret) ==
    LET c == Call("VirtualAllocEx", old_mbi.BaseAddress, old_mbi.RegionSize,
                  kind, old_mbi.Protect, << >>)
    IN  IF fault = "alloc"
           \/ ~AllocValid(M, old_mbi.BaseAddress, old_mbi.RegionSize, kind)
        THEN [err |-> "WindowsError", M |-> M, new |-> new_mbi, calls |-> << c >>,
              ret |-> None]
        ELSE IF fault = "moved" /\ ret # old_mbi.BaseAddress
                /\ AllocValid(M, ret, old_mbi.RegionSize, kind)
        THEN [err |-> "RuntimeError",
              M |-> VirtualAllocEx(M, ret, old_mbi.RegionSize, kind,
                                   old_mbi.Protect),
              new |-> new_mbi,
              calls |-> << c >>,
              ret |-> ret]
        ELSE [err |-> "none",
              M |-> VirtualAllocEx(M, old_mbi.BaseAddress, old_mbi.RegionSize,
                                   kind, old_mbi.Protect),
              new |-> [new_mbi EXCEPT !.Protect = old_mbi.Protect],
              calls |-> << c >>,
              ret |-> old_mbi.BaseAddress]

RestoreAlloc(M, new_mbi, old_mbi, kind, fault, ret) ==
    LET c == Call("VirtualAllocEx", old_mbi.BaseAddress, old_mbi.RegionSize,
                  kind, old_mbi.Protect, << >>)
    IN  IF fault = "alloc"
           \/ ~AllocValid(M, old_mbi.BaseAddress, old_mbi.RegionSize, kind)
        THEN [err |-> "WindowsError", M |-> M, new |-> new_mbi, calls |-> << c >>,
              ret |-> None]
        ELSE IF fault = "moved" /\ ret # old_mbi.BaseAddress
                /\ AllocValid(M, ret, old_mbi.RegionSize, kind)
        THEN \* address != old_mbi.BaseAddress: self.free(address), then raise
             [err |-> "RuntimeError",
              M |-> VirtualFreeEx(
                        VirtualAllocEx(M, ret, old_mbi.RegionSize, kind,
                                       old_mbi.Protect),
                        ret, old_mbi.RegionSize, "MEM_RELEASE"),
              new |-> new_mbi,
              calls |-> << c, Call("VirtualFreeEx", ret, 0, "MEM_RELEASE",
                                   "", << >>) >>,
              ret |-> ret]
        ELSE [err |-> "none",
              M |-> VirtualAllocEx(M, old_mbi.BaseAddress, old_mbi.RegionSize,
                                   kind, old_mbi.Protect),
              new |-> [new_mbi EXCEPT !.Protect = old_mbi.Protect],
              calls |-> << c >>,
              ret |-> old_mbi.BaseAddress]

FreeValid(M, a, size) ==
    /\ InRange(a, size)
    /\ \A p \in PagesOfRange(a, size) : M.pg[p].State # "MEM_FREE"

\* Variant: every release is a MEM_RELEASE, whatever the table asks for.
RestoreFree_alwaysRelease(M, new_mbi, old_mbi, kind, fault) ==
    LET c == Call("VirtualFreeEx", old_mbi.BaseAddress, old_mbi.RegionSize,
                  "MEM_RELEASE", "", << >>)
    IN  IF fault = "free"
           \/ ~FreeValid(M, old_mbi.BaseAddress, old_mbi.RegionSize)
        THEN [err |-> "WindowsError", M |-> M, new |-> new_mbi, calls |-> << c >>,
              ret |-> None]
        ELSE [err |-> "none",
              M |-> VirtualFreeEx(M, old_mbi.BaseAddress, old_mbi.RegionSize,
                                  "MEM_RELEASE"),
              new |-> new_mbi, calls |-> << c >>, ret |-> None]

\* ... and the releases.
RestoreFree(M, new_mbi, old_mbi, kind, fault) ==
    LET c == Call("VirtualFreeEx", old_mbi.BaseAddress, old_mbi.RegionSize,
                  kind, "", << >>)
    IN  IF fault = "free"
           \/ ~FreeValid(M, old_mbi.BaseAddress, old_mbi.RegionSize)
        THEN [err |-> "WindowsError", M |-> M, new |-> new_mbi, calls |-> << c >>,
              ret |-> None]
        ELSE [err |-> "none",
              M |-> VirtualFreeEx(M, old_mbi.BaseAddress, old_mbi.RegionSize, kind),
              new |-> new_mbi, calls |-> << c >>, ret |-> None]

\* Variant: the table is consulted even when the states are equal.
RestoreState_noEqualExit(M, new_mbi, old_mbi, fault, ret) ==
    IF is_free(new_mbi)
    THEN IF is_reserved(old_mbi)
         THEN RestoreAlloc(M, new_mbi, old_mbi, "MEM_RESERVE", fault, ret)
         ELSE RestoreAlloc(M, new_mbi, old_mbi, "MEM_RESERVE|MEM_COMMIT", fault, ret)
    ELSE IF is_reserved(new_mbi)
    THEN IF is_commited(old_mbi)
         THEN RestoreAlloc(M, new_mbi, old_mbi, "MEM_COMMIT", fault, ret)
         ELSE RestoreFree(M, new_mbi, old_mbi, "MEM_RELEASE", fault)
    ELSE IF is_reserved(old_mbi)
         THEN RestoreFree(M, new_mbi, old_mbi, "MEM_DECOMMIT", fault)
         ELSE RestoreFree(M, new_mbi, old_mbi, "MEM_DECOMMIT|MEM_RELEASE", fault)

RestoreState(M, new_mbi, old_mbi, fault, ret) ==
    IF new_mbi.State = old_mbi.State
    THEN [err |-> "none", M |-> M, new |-> new_mbi, calls |-> << >>, ret |-> None]
    ELSE IF is_free(new_mbi)
    THEN IF is_reserved(old_mbi)
         THEN RestoreAlloc(M, new_mbi, old_mbi, "MEM_RESERVE", fault, ret)
         ELSE RestoreAlloc(M, new_mbi, old_mbi, "MEM_RESERVE|MEM_COMMIT", fault, ret)
    ELSE IF is_reserved(new_mbi)
    THEN IF is_commited(old_mbi)
         THEN RestoreAlloc(M, new_mbi, old_mbi, "MEM_COMMIT", fault, ret)
         ELSE RestoreFree(M, new_mbi, old_mbi, "MEM_RELEASE", fault)
    ELSE IF is_reserved(old_mbi)
         THEN RestoreFree(M, new_mbi, old_mbi, "MEM_DECOMMIT", fault)
         ELSE RestoreFree(M, new_mbi, old_mbi, "MEM_DECOMMIT|MEM_RELEASE", fault)

\* Lines 3154-3161: the region permissions.  s is the outcome of the state
\* transition: [err, M, new, calls, ret].
RestoreProtect(s, old_mbi, fault) ==
    IF s.err # "none" THEN s
    ELSE IF is_commited(old_mbi) /\ old_mbi.Protect # s.new.Protect
    THEN IF fault = "protect"
            \/ ~ProtectValid(s.M, old_mbi.BaseAddress, old_mbi.RegionSize)
         THEN [s EXCEPT !.err = "WindowsError",
                        !.new.State = old_mbi.State,
                        !.calls = @ \o << Call("VirtualProtectEx",
                                               old_mbi.BaseAddress,
                                               old_mbi.RegionSize, "",
                                               old_mbi.Protect, << >>) >>]
         ELSE [s EXCEPT !.M = VirtualProtectEx(s.M, old_mbi.BaseAddress,
                                               old_mbi.RegionSize,
                                               old_mbi.Protect),
                        !.new.State = old_mbi.State,
                        !.new.Protect = old_mbi.Protect,
                        !.calls = @ \o << Call("VirtualProtectEx",
                                               old_mbi.BaseAddress,
                                               old_mbi.RegionSize, "",
                                               old_mbi.Protect, << >>) >>]
    ELSE [s EXCEPT !.new.State = old_mbi.State]

\* The outcome w of the write joined to the outcome s of the steps before.
ContentDone(s, old_mbi, w) ==
    [s EXCEPT !.err = w.err, !.M = w.M,
              !.new = IF w.err = "none"
                      THEN [@ EXCEPT !.content = old_mbi.content] ELSE @,
              !.calls = @ \o w.calls]

\* Lines 3163-3171: the region data.
RestoreContent(s, old_mbi, bSkipMappedFiles, fault) ==
    IF s.err # "none" THEN s
    ELSE IF has_content(old_mbi)
    THEN IF old_mbi.Type # 0
         THEN IF ~bSkipMappedFiles
              THEN ContentDone(s, old_mbi,
                       poke(s.M, old_mbi.BaseAddress, old_mbi.content, fault))
              ELSE [s EXCEPT !.new.content = old_mbi.content]
         ELSE ContentDone(s, old_mbi,
                  write(s.M, old_mbi.BaseAddress, old_mbi.content, fault))
    ELSE s

\* Variant: the failure is turned into a warning whatever bSkipOnError says.
RestoreOutcome_swallows(s, bSkipOnError) ==
    [M |-> s.M, new |-> s.new, calls |-> s.calls, ret |-> s.ret, err |-> s.err,
     raised |-> "none",
     warned |-> s.err # "none"]

\* Lines 3173-3182: on error, raise or warn.  raised is the exception that
\* leaves the method, warned tells a warning was issued.
RestoreOutcome(s, bSkipOnError) ==
    [M |-> s.M, new |-> s.new, calls |-> s.calls, ret |-> s.ret, err |-> s.err,
     raised |-> IF bSkipOnError THEN "none" ELSE s.err,
     warned |-> bSkipOnError /\ s.err # "none"]

\* Process.__restore_mbi.  err is the exception raised inside the try.
restore_mbi(M, new_mbi, old_mbi, bSkipMappedFiles, bSkipOnError, fault, ret) ==
    RestoreOutcome(
        RestoreContent(
            RestoreProtect(RestoreState(M, new_mbi, old_mbi, fault, ret),
                           old_mbi, fault),
            old_mbi, bSkipMappedFiles, fault),
        bSkipOnError)

\* ------------------------------------- Process.iter_memory_snapshot
\* win32.LPVOID(-1).value, the highest pointer: it lies above the addresses
\* that the system lets a program query (Addrs).
LPVOID_MAX == AddrLimit + PageSize - 1

\* MemoryAddresses.align_address_range, for minAddr <= maxAddr.
AlignEnd(maxAddr) ==
    IF maxAddr # align_address_to_page_start(maxAddr)
    THEN align_address_to_page_end(maxAddr)
    ELSE maxAddr

align_address_range(minAddr, maxAddr) ==
    << IF minAddr = None THEN 0 ELSE align_address_to_page_start(minAddr),
       IF maxAddr = None THEN AlignEnd(LPVOID_MAX) ELSE AlignEnd(maxAddr) >>

\* The loop condition without the test that the cursor moved forward.
MapLoopRuns_noPrev(prevAddr, currentAddr, maxAddr) == currentAddr < maxAddr

\* Line 2738: while prevAddr < currentAddr < maxAddr.
MapLoopRuns(prevAddr, currentAddr, maxAddr) ==
    prevAddr < currentAddr /\ currentAddr < maxAddr

\* The loop with a cursor that moves on by one page whatever the region size.
RECURSIVE MemoryMapFrom_pageStep(_, _, _, _)
MemoryMapFrom_pageStep(M, prevAddr, currentAddr, maxAddr) ==
    IF ~(prevAddr < currentAddr /\ currentAddr < maxAddr) THEN << >>
    ELSE IF currentAddr \notin Addrs THEN << >>
    ELSE << VirtualQueryEx(M, currentAddr) >>
         \o MemoryMapFrom_pageStep(M, currentAddr, currentAddr + PageSize, maxAddr)

\* Process.iter_memory_map, from the cursor on: the loop body.
RECURSIVE MemoryMapFrom(_, _, _, _)
MemoryMapFrom(M, prevAddr, currentAddr, maxAddr) ==
    IF ~MapLoopRuns(prevAddr, currentAddr, maxAddr) THEN << >>
    ELSE IF currentAddr \notin Addrs THEN << >>
    ELSE LET mbi == VirtualQueryEx(M, currentAddr) IN
         << mbi >> \o MemoryMapFrom(M, currentAddr,
                                    mbi.BaseAddress + mbi.RegionSize, maxAddr)

iter_memory_map(M, minAddr, maxAddr) ==
    LET r == align_address_range(minAddr, maxAddr) IN
    MemoryMapFrom(M, r[1] - 1, r[1], r[2])

\* MemoryBasicInformation.is_readable: committed, accessible and with a
\* protection that grants reading.
ReadProtects ==
    {"PAGE_READONLY", "PAGE_READWRITE", "PAGE_WRITECOPY", "PAGE_EXECUTE_READ",
     "PAGE_EXECUTE_READWRITE"}
is_readable(mbi) == has_content(mbi) /\ mbi.Protect \in ReadProtects

\* Lines 1793-1796 of Process.peek: nSize after the loop over the memory map,
\* from region i on.
RECURSIVE PeekSize(_, _, _, _)
PeekSize(memory, i, lpBaseAddress, nSize) ==
    IF i > Len(memory) THEN nSize
    ELSE IF ~is_readable(memory[i]) THEN memory[i].BaseAddress - lpBaseAddress
    ELSE PeekSize(memory, i + 1, lpBaseAddress, nSize)

\* The read with an except clause that lets the error of the system call out.
PeekRead_reraises(M, lpBaseAddress, nSize, fault) ==
    IF nSize <= 0
    THEN [data |-> << >>, warned |-> FALSE, raised |-> FALSE, issued |-> FALSE]
    ELSE IF fault = "read"
    THEN [data |-> << >>, warned |-> FALSE, raised |-> TRUE, issued |-> TRUE]
    ELSE IF ~AllReadable(M, lpBaseAddress, nSize)
    THEN [data |-> << >>, warned |-> TRUE, raised |-> FALSE, issued |-> TRUE]
    ELSE [data |-> ReadProcessMemory(M, lpBaseAddress, nSize), warned |-> FALSE,
          raised |-> FALSE, issued |-> TRUE]

\* Lines 1797-1802: the read, and the except clause that turns a WindowsError
\* into a warning.  fault = "read" makes win32.ReadProcessMemory fail for a
\* reason of its own.
PeekRead(M, lpBaseAddress, nSize, fault) ==
    IF nSize <= 0
    THEN [data |-> << >>, warned |-> FALSE, raised |-> FALSE, issued |-> FALSE]
    ELSE IF fault = "read" \/ ~AllReadable(M, lpBaseAddress, nSize)
    THEN [data |-> << >>, warned |-> TRUE, raised |-> FALSE, issued |-> TRUE]
    ELSE [data |-> ReadProcessMemory(M, lpBaseAddress, nSize), warned |-> FALSE,
          raised |-> FALSE, issued |-> TRUE]

\* peek that reads the size asked for whatever the memory map says.
peek_noTruncate(M, lpBaseAddress, nSize, fault) ==
    IF fault = "query"
    THEN [data |-> << >>, warned |-> TRUE, raised |-> FALSE, issued |-> FALSE]
    ELSE PeekRead(M, lpBaseAddress, nSize, fault)

\* Process.peek, nSize > 0.  fault = "query" makes a query of the memory map
\* fail with an error other than invalid parameter.
peek(M, lpBaseAddress, nSize, fault) ==
    IF fault = "query"
    THEN [data |-> << >>, warned |-> TRUE, raised |-> FALSE, issued |-> FALSE]
    ELSE PeekRead(M, lpBaseAddress,
                  PeekSize(iter_memory_map(M, lpBaseAddress, lpBaseAddress + nSize),
                           1, lpBaseAddress, nSize),
                  fault)

\* Lines 2893-2907: the first and the last block are cut to the range.
TrimFirst(memory, minAddr) ==
    IF minAddr = None THEN memory
    ELSE LET lo == align_address_to_page_start(minAddr)
             mbi == memory[1]
         IN  IF mbi.BaseAddress < lo
             THEN [memory EXCEPT ![1] =
                     [mbi EXCEPT !.RegionSize = mbi.BaseAddress + mbi.RegionSize - lo,
                                 !.BaseAddress = lo]]
             ELSE memory

TrimLast(memory, maxAddr) ==
    IF maxAddr = None THEN memory
    ELSE LET hi == IF maxAddr # align_address_to_page_start(maxAddr)
                   THEN align_address_to_page_end(maxAddr) ELSE maxAddr
             n == Len(memory)
             mbi == memory[n]
         IN  IF mbi.BaseAddress + mbi.RegionSize > hi
             THEN [memory EXCEPT ![n] =
                     [mbi EXCEPT !.RegionSize = hi - mbi.BaseAddress]]
             ELSE memory

\* Process.get_mapped_filenames gives a name to mapped and image regions.
MappedFilename(mbi) ==
    IF mbi.Type \in {MEM_IMAGE, MEM_MAPPED} THEN "file" ELSE ""

\* The snapshot with the contents read before the blocks are cut to the range.
take_memory_snapshot_readsUncut(M, minAddr, maxAddr) ==
    LET memory == iter_memory_map(M, minAddr, maxAddr)
        cut == IF memory = << >> THEN memory
               ELSE TrimLast(TrimFirst(memory, minAddr), maxAddr)
        rd(mbi) == read(M, mbi.BaseAddress, mbi.RegionSize)
    IN  IF \E i \in 1 .. Len(cut) : has_content(cut[i]) /\ rd(memory[i]).err # "none"
        THEN [err |-> "WindowsError", list |-> << >>]
        ELSE [err |-> "none",
              list |-> [i \in 1 .. Len(cut) |->
                          [cut[i] EXCEPT
                             !.filename = MappedFilename(cut[i]),
                             !.content = IF has_content(cut[i])
                                         THEN rd(memory[i]).data ELSE << >>]]]

\* Process.take_memory_snapshot: err "none" and the list, or the error of
\* the read that failed.
take_memory_snapshot(M, minAddr, maxAddr) ==
    LET memory == iter_memory_map(M, minAddr, maxAddr)
        cut == IF memory = << >> THEN memory
               ELSE TrimLast(TrimFirst(memory, minAddr), maxAddr)
        rd(mbi) == read(M, mbi.BaseAddress, mbi.RegionSize)
    IN  IF \E i \in 1 .. Len(cut) : has_content(cut[i]) /\ rd(cut[i]).err # "none"
        THEN [err |-> "WindowsError", list |-> << >>]
        ELSE [err |-> "none",
              list |-> [i \in 1 .. Len(cut) |->
                          [cut[i] EXCEPT
                             !.filename = MappedFilename(cut[i]),
                             !.content = IF has_content(cut[i])
                                         THEN rd(cut[i]).data ELSE << >>]]]

\* ------------------------------------------- Process.suspend / resume
\* Thread.suspend and Thread.resume on the suspend count of one thread.
ThreadSuspend(S, t) == [S EXCEPT ![t] = @ + 1]
ThreadResume(S, t) == [S EXCEPT ![t] = IF @ > 0 THEN @ - 1 ELSE 0]

RECURSIVE ResumeAll(_, _, _)
ResumeAll(S, ts, failR) ==
    IF ts = {} THEN S
    ELSE LET t == CHOOSE x \in ts : \A y \in ts : x <= y IN
         ResumeAll(IF t \in failR THEN S ELSE ThreadResume(S, t), ts \ {t}, failR)

RECURSIVE SuspendAll(_, _, _)
SuspendAll(S, ts, failS) ==
    IF ts = {} THEN S
    ELSE LET t == CHOOSE x \in ts : \A y \in ts : x <= y IN
         SuspendAll(IF t \in failS THEN S ELSE ThreadSuspend(S, t), ts \ {t}, failS)

\* Variant: no roll-back, the threads suspended so far stay suspended.
Process_suspend_noRollback(T, S, scanOk, failS, failR) ==
    IF ~scanOk THEN [err |-> "WindowsError", threads |-> T, susp |-> S]
    ELSE IF Tids \cap failS = {}
    THEN [err |-> "none", threads |-> Tids, susp |-> SuspendAll(S, Tids, {})]
    ELSE [err |-> "WindowsError", threads |-> Tids,
          susp |-> SuspendAll(S, {t \in Tids : \A b \in Tids \cap failS : t < b},
                              {})]

\* Process.suspend.  scanOk: scan_threads succeeds; failS, failR: the threads
\* whose suspend / resume call fails.  Threads are visited in ID order.
Process_suspend(T, S, scanOk, failS, failR) ==
    IF ~scanOk THEN [err |-> "WindowsError", threads |-> T, susp |-> S]
    ELSE LET all == Tids
             bad == all \cap failS
         IN  IF bad = {}
             THEN [err |-> "none", threads |-> all,
                   susp |-> SuspendAll(S, all, {})]
             ELSE LET first == CHOOSE x \in bad : \A y \in bad : x <= y
                      suspended == {t \in all : t < first}
                  IN  [err |-> "WindowsError", threads |-> all,
                       susp |-> ResumeAll(SuspendAll(S, suspended, {}),
                                          suspended, failR)]

\* Variant: the threads are left suspended.
Process_resume_noop(T, S, scanOk, failS, failR) ==
    IF T = {} /\ ~scanOk THEN [err |-> "WindowsError", threads |-> T, susp |-> S]
    ELSE [err |-> "none", threads |-> IF T = {} THEN Tids ELSE T, susp |-> S]

\* Process.resume.
Process_resume(T, S, scanOk, failS, failR) ==
    IF T = {} /\ ~scanOk THEN [err |-> "WindowsError", threads |-> T, susp |-> S]
    ELSE LET all == IF T = {} THEN Tids ELSE T
             bad == all \cap failR
         IN  IF bad = {}
             THEN [err |-> "none", threads |-> all,
                   susp |-> ResumeAll(S, all, {})]
             ELSE LET first == CHOOSE x \in bad : \A y \in bad : x <= y
                      resumed == {t \in all : t < first}
                  IN  [err |-> "WindowsError", threads |-> all,
                       susp |-> SuspendAll(ResumeAll(S, resumed, {}),
                                           resumed, failS)]

\* =================================================================== state
VARIABLES
    mem,        \* the target's address space (the operating system's view)
    susp,       \* suspend count of each thread of the target
    threads,    \* the thread IDs in the Process object's thread snapshot
    snapshot,   \* the list returned by the last take_memory_snapshot
    rs,         \* the running restore_memory_snapshot: position and locals
    ext,        \* number of changes made by the target or by other programs
    h,          \* history of the calls, for the statements below
    processDict,\* _ProcessContainer.__processDict: pid -> Process
    scan,       \* the running _ProcessContainer.scan: position and locals
    torn,       \* the Process objects torn down by the last operation
    lk,         \* the last lookup on the container
    proc,       \* a Process object of its own: its handle and the last call
    io          \* the last memory operation of a Process: arguments and outcome

memVars == << mem, susp, threads, snapshot, rs, ext, h >>
contVars == << processDict, scan, torn, lk, proc, io >>
vars == << mem, susp, threads, snapshot, rs, ext, h, processDict, scan, torn, lk, proc,
          io >>

\* An element of a list that is not a MemoryBasicInformation.
Junk == [isMbi |-> FALSE]

NoStep == [kind |-> "none"]
IdleRs == [pc |-> "idle"]
IdleIo == [op |-> "none"]

\* Layouts a process starts from: one region (reserved, committed private
\* read-write, or a committed read-write view of a mapped file) in an
\* otherwise free address space, or no region at all.  Committed bytes are 1.
InitPageKinds ==
    {ReservedPage,
     CommittedPage("PAGE_READWRITE", MEM_PRIVATE),
     CommittedPage("PAGE_READWRITE", MEM_MAPPED)}

LayoutMem(f) ==
    [pg |-> f,
     by |-> [a \in Addrs |-> IF f[PageOf(a)].State = "MEM_COMMIT" THEN 1 ELSE 0]]

InitMem ==
    {LayoutMem([p \in Pages |-> FreePage])} \cup
    {LayoutMem([p \in Pages |-> IF lo <= p /\ p <= hi THEN k ELSE FreePage])
        : lo \in Pages, hi \in Pages, k \in InitPageKinds}

InitH ==
    [capMem |-> [pg |-> << >>, by |-> << >>], whole |-> FALSE, dirty |-> FALSE,
     extOp |-> [op |-> "none", base |-> None, size |-> 0],
     suspBefore |-> [t \in Tids |-> 0],
     memBegin |-> [pg |-> << >>, by |-> << >>],
     suspended |-> FALSE, everSuspended |-> FALSE, outside |-> FALSE,
     step |-> NoStep, cause |-> "none", failed |-> FALSE,
     memAtFail |-> [pg |-> << >>, by |-> << >>],
     warnings |-> 0, attempted |-> {}]

MemInit ==
    /\ mem \in InitMem
    /\ susp = [t \in Tids |-> 0]
    /\ threads = {}
    /\ snapshot = << >>
    /\ rs = IdleRs
    /\ ext = 0
    /\ h = InitH
    /\ processDict = << >>
    /\ scan = [pc |-> "idle"]
    /\ torn = << >>
    /\ lk = [op |-> "none", n |-> 0]
    /\ proc = [pc |-> "idle"]
    /\ io = IdleIo

\* ------------------------------------------------------------ environment
\* The target, or another program, changes the address space while the
\* inspecting program is not restoring.
ExternalChange(M, op, base) ==
    /\ rs.pc = "idle"
    /\ ext < MaxExternal
    /\ ext' = ext + 1
    /\ mem' = M
    /\ h' = [h EXCEPT !.dirty = TRUE,
                      !.extOp = [op |-> op, base |-> base,
                                 size |-> VirtualQueryEx(mem, base).RegionSize]]
    /\ UNCHANGED << susp, threads, snapshot, rs, contVars >>

PageStarts == {p * PageSize : p \in Pages}

ExternalFree ==
    \E base \in PageStarts :
        LET mbi == VirtualQueryEx(mem, base) IN
        /\ ~is_free(mbi)
        /\ IF base = 0 THEN TRUE
           ELSE mem.pg[PageOf(base) - 1] # mem.pg[PageOf(base)]
        /\ ExternalChange(VirtualFreeEx(mem, base, mbi.RegionSize, "MEM_RELEASE"),
                          "free", base)

ExternalDecommit ==
    \E base \in PageStarts :
        LET mbi == VirtualQueryEx(mem, base) IN
        /\ is_commited(mbi)
        /\ ExternalChange(VirtualFreeEx(mem, base, PageSize, "MEM_DECOMMIT"),
                          "decommit", base)

ExternalAlloc ==
    \E base \in PageStarts, kind \in {"MEM_RESERVE", "MEM_RESERVE|MEM_COMMIT", "MEM_COMMIT"} :
        /\ AllocValid(mem, base, PageSize, kind)
        /\ mem.pg[PageOf(base)].State # "MEM_COMMIT"
        /\ ExternalChange(VirtualAllocEx(mem, base, PageSize, kind, "PAGE_READWRITE"),
                          "alloc", base)

ExternalProtect ==
    \E base \in PageStarts, prot \in {"PAGE_READONLY", "PAGE_READWRITE", "PAGE_NOACCESS"} :
        /\ is_commited(VirtualQueryEx(mem, base))
        /\ mem.pg[PageOf(base)].Protect # prot
        /\ ExternalChange(VirtualProtectEx(mem, base, PageSize, prot),
                          "protect", base)

ExternalWrite ==
    \E a \in Addrs :
        /\ Writeable(mem, a)
        /\ ExternalChange(WriteProcessMemory(mem, a, << 1 - mem.by[a] >>).M,
                          "write", align_address_to_page_start(a))

\* ---------------------------------------------------------------- capture
CaptureRanges == {<< None, None >>, << None, AddrLimit - PageSize >>}

\* No region of the list was cut short by maxAddr.
IsWhole(M, list) ==
    \A i \in 1 .. Len(list) :
        list[i].RegionSize = VirtualQueryEx(M, list[i].BaseAddress).RegionSize

TakeSnapshot ==
    \E r \in CaptureRanges :
        LET res == take_memory_snapshot(mem, r[1], r[2]) IN
        /\ rs.pc = "idle"
        /\ res.err = "none"
        /\ snapshot' = res.list
        /\ h' = [h EXCEPT !.capMem = mem, !.dirty = FALSE,
                          !.whole = IsWhole(mem, res.list),
                          !.extOp = [op |-> "none", base |-> None, size |-> 0]]
        /\ UNCHANGED << mem, susp, threads, rs, ext, contVars >>

\* ------------------------------------ Process.restore_memory_snapshot
\* The values a caller can pass as the snapshot argument.
ArgKinds == {"snapshot", "empty", "generator", "junk_first", "junk_last"}

SnapshotArg(kind) ==
    CASE kind = "snapshot"   -> [isList |-> TRUE, items |-> snapshot]
      [] kind = "empty"      -> [isList |-> TRUE, items |-> << >>]
      [] kind = "generator"  -> [isList |-> FALSE, items |-> snapshot]
      [] kind = "junk_first" -> [isList |-> TRUE, items |-> << Junk >> \o snapshot]
      [] kind = "junk_last"  -> [isList |-> TRUE, items |-> snapshot \o << Junk >>]

\* Lines 2992-2996: the argument check.
SnapshotRejected(arg) ==
    \/ Len(arg.items) = 0
    \/ ~arg.isList
    \/ ~arg.items[1].isMbi

ThreadFaults == {{}} \cup {{t} : t \in Tids}

\* Lines 2992-3011: the check, then Process.suspend.
RestoreBegin ==
    \E kind \in ArgKinds, bSkipMappedFiles \in BOOLEAN, bSkipOnError \in BOOLEAN,
       scanOk \in BOOLEAN, fail \in ThreadFaults :
        LET arg == SnapshotArg(kind)
            sp == Process_suspend(threads, susp, scanOk, fail, fail)
            run == [pc |-> "loop", arg |-> arg,
                    bSkipMappedFiles |-> bSkipMappedFiles,
                    bSkipOnError |-> bSkipOnError,
                    idx |-> 1, raised |-> "none"]
            h0 == [h EXCEPT !.suspBefore = susp, !.memBegin = mem]
        IN
        /\ rs.pc = "idle"
        /\ IF SnapshotRejected(arg)
           THEN /\ rs' = [run EXCEPT !.pc = "done", !.raised = "TypeError"]
                /\ h' = [h0 EXCEPT !.cause = "type"]
                /\ UNCHANGED << susp, threads >>
           ELSE IF sp.err # "none"
           THEN /\ rs' = [run EXCEPT !.pc = "done", !.raised = sp.err]
                /\ h' = [h0 EXCEPT !.cause = "suspend"]
                /\ susp' = sp.susp
                /\ threads' = sp.threads
           ELSE /\ rs' = run
                /\ h' = [h0 EXCEPT !.suspended = TRUE, !.everSuspended = TRUE]
                /\ susp' = sp.susp
                /\ threads' = sp.threads
        /\ UNCHANGED << mem, snapshot, ext, contVars >>

\* A fault is drawn only where the call it names is issued: res is the
\* outcome with the fault, plain the outcome without.
FaultApplies(res, plain, fault) == fault = "none" \/ res # plain

\* What one call of __restore_mbi did, for the history.
StepOf(new_mbi, old_mbi, res, fault, skipMapped) ==
    [kind |-> "mbi", old |-> old_mbi, newState |-> new_mbi.State,
     newProtect |-> new_mbi.Protect, calls |-> res.calls, err |-> res.err,
     ret |-> res.ret, fault |-> fault, bSkipMappedFiles |-> skipMapped]

AfterStep(res, st) ==
    [h EXCEPT !.step = st,
              !.outside = @ \/ (res.calls # << >>
                                 /\ \E t \in Tids : susp[t] <= h.suspBefore[t]),
              !.failed = @ \/ res.err # "none",
              !.memAtFail = IF ~h.failed /\ res.err # "none" THEN res.M ELSE @,
              !.cause = IF res.raised # "none" THEN "region" ELSE @,
              !.warnings = IF res.warned /\ @ < Len(rs.arg.items) * NPages
                           THEN @ + 1 ELSE @,
              !.attempted = @ \cup {rs.idx}]

\* Lines 3020-3024: the region is where it was; res is the outcome of the
\* call of __restore_mbi on it.
RegionDone(res, new_mbi, old_mbi, fault) ==
    /\ mem' = res.M
    /\ h' = AfterStep(res, StepOf(new_mbi, old_mbi, res, fault,
                                  rs.bSkipMappedFiles))
    /\ rs' = IF res.raised # "none"
             THEN [rs EXCEPT !.pc = "finally", !.raised = res.raised]
             ELSE [rs EXCEPT !.idx = @ + 1]

\* Line 3027: the page loop works on a copy of the descriptor, so that what
\* it assigns to old_mbi (lines 3045 and 3049) does not reach the descriptor
\* in the list.  list is the list after an assignment that leaves mbi in the
\* local variable.
AssignOld_inPlace(list, idx, mbi) == [list EXCEPT ![idx] = mbi]

AssignOld(list, idx, mbi) == list

\* The run r after such an assignment.
Assigned(r, mbi) == [r EXCEPT !.arg.items = AssignOld(@, r.idx, mbi)]

\* Lines 3013-3047: one iteration of the loop over the snapshot, up to the
\* direct call of __restore_mbi or to the start of the page loop.
RestoreRegion ==
    \E queryOk \in BOOLEAN, fault \in Faults, ret \in PageStarts :
        /\ rs.pc = "loop"
        /\ (fault # "moved" => ret = 0)
        /\ UNCHANGED << susp, threads, snapshot, ext, contVars >>
        /\ IF rs.idx > Len(rs.arg.items)
           THEN /\ queryOk /\ fault = "none"
                /\ rs' = [rs EXCEPT !.pc = "finally"]
                /\ UNCHANGED << mem, h >>
           ELSE IF ~rs.arg.items[rs.idx].isMbi
           THEN \* old_mbi.BaseAddress raises AttributeError
                /\ queryOk /\ fault = "none"
                /\ rs' = [rs EXCEPT !.pc = "finally", !.raised = "AttributeError"]
                /\ h' = [h EXCEPT !.cause = "junk", !.step = NoStep]
                /\ UNCHANGED mem
           ELSE IF ~queryOk
           THEN \* self.mquery raises
                /\ fault = "none"
                /\ rs' = [rs EXCEPT !.pc = "finally", !.raised = "WindowsError"]
                /\ h' = [h EXCEPT !.cause = "query", !.step = NoStep,
                                  !.failed = TRUE,
                                  !.memAtFail = IF h.failed THEN @ ELSE mem,
                                  !.attempted = @ \cup {rs.idx}]
                /\ UNCHANGED mem
           ELSE
           LET old_mbi == rs.arg.items[rs.idx]
               new_mbi == VirtualQueryEx(mem, old_mbi.BaseAddress)
           IN  IF new_mbi.BaseAddress = old_mbi.BaseAddress
                  /\ new_mbi.RegionSize = old_mbi.RegionSize
               THEN /\ FaultApplies(
                           restore_mbi(mem, new_mbi, old_mbi, rs.bSkipMappedFiles,
                                       rs.bSkipOnError, fault, ret),
                           restore_mbi(mem, new_mbi, old_mbi, rs.bSkipMappedFiles,
                                       rs.bSkipOnError, "none", 0),
                           fault)
                    /\ RegionDone(
                           restore_mbi(mem, new_mbi, old_mbi, rs.bSkipMappedFiles,
                                       rs.bSkipOnError, fault, ret),
                           new_mbi, old_mbi, fault)
               ELSE LET old_start == old_mbi.BaseAddress
                        old_end == old_start + old_mbi.RegionSize
                        new_start == new_mbi.BaseAddress
                        new_end == new_start + new_mbi.RegionSize
                        start == IF old_start > new_start THEN old_start ELSE new_start
                        end == IF old_end < new_end THEN old_end ELSE new_end
                        step == PageSize
                    IN  /\ fault = "none"
                        /\ UNCHANGED mem
                        /\ h' = [h EXCEPT !.step = NoStep,
                                          !.attempted = @ \cup {rs.idx}]
                        /\ rs' = IF start < end
                                 THEN [pc |-> "page",
                                       arg |-> Assigned(rs, [CopyMbi(old_mbi) EXCEPT
                                                   !.RegionSize = step]).arg,
                                       bSkipMappedFiles |-> rs.bSkipMappedFiles,
                                       bSkipOnError |-> rs.bSkipOnError,
                                       idx |-> rs.idx, raised |-> "none",
                                       old_mbi |-> [CopyMbi(old_mbi) EXCEPT
                                                       !.RegionSize = step],
                                       new_mbi |-> [new_mbi EXCEPT
                                                       !.RegionSize = step],
                                       address |-> start, end |-> end]
                                 ELSE [rs EXCEPT !.idx = @ + 1]

\* The record of the run without the locals of the page loop.
LoopRs(r) ==
    [pc |-> "loop", arg |-> r.arg, bSkipMappedFiles |-> r.bSkipMappedFiles,
     bSkipOnError |-> r.bSkipOnError, idx |-> r.idx, raised |-> r.raised]

\* Lines 3051-3054: res is the outcome of __restore_mbi on one page.
PageDone(res, new_mbi, old_mbi, fault) ==
    /\ mem' = res.M
    /\ h' = AfterStep(res, StepOf(new_mbi, old_mbi, res, fault,
                                  rs.bSkipMappedFiles))
    /\ rs' = IF res.raised # "none"
             THEN [LoopRs(Assigned(rs, old_mbi)) EXCEPT
                      !.pc = "finally", !.raised = res.raised]
             ELSE IF rs.address + PageSize < rs.end
             THEN [Assigned(rs, old_mbi) EXCEPT
                      !.address = rs.address + PageSize,
                      !.old_mbi = old_mbi,
                      !.new_mbi = res.new]
             ELSE [LoopRs(Assigned(rs, old_mbi)) EXCEPT !.idx = @ + 1]

\* The page descriptors of the current step, lines 3049-3050.
PageMbi(mbi) == [mbi EXCEPT !.BaseAddress = rs.address]

\* Lines 3048-3054: one iteration of the page loop.
RestorePage ==
    \E fault \in Faults, ret \in PageStarts :
        /\ rs.pc = "page"
        /\ (fault # "moved" => ret = 0)
        /\ FaultApplies(
               restore_mbi(mem, PageMbi(rs.new_mbi), PageMbi(rs.old_mbi),
                           rs.bSkipMappedFiles, rs.bSkipOnError, fault, ret),
               restore_mbi(mem, PageMbi(rs.new_mbi), PageMbi(rs.old_mbi),
                           rs.bSkipMappedFiles, rs.bSkipOnError, "none", 0),
               fault)
        /\ PageDone(
               restore_mbi(mem, PageMbi(rs.new_mbi), PageMbi(rs.old_mbi),
                           rs.bSkipMappedFiles, rs.bSkipOnError, fault, ret),
               PageMbi(rs.new_mbi), PageMbi(rs.old_mbi), fault)
        /\ UNCHANGED << susp, threads, snapshot, ext, contVars >>

\* Lines 3056-3058: the finally clause, Process.resume.
RestoreEnd ==
    \E scanOk \in BOOLEAN, fail \in ThreadFaults :
        LET rp == Process_resume(threads, susp, scanOk, fail, fail) IN
        /\ rs.pc = "finally"
        /\ susp' = rp.susp
        /\ threads' = rp.threads
        /\ rs' = [rs EXCEPT !.pc = "done",
                            !.raised = IF rp.err # "none" THEN rp.err ELSE @]
        /\ h' = [h EXCEPT !.suspended = FALSE,
                          !.cause = IF rp.err # "none" THEN "resume" ELSE @]
        /\ UNCHANGED << mem, snapshot, ext, contVars >>

MemNext ==
    \/ ExternalFree
    \/ ExternalDecommit
    \/ ExternalAlloc
    \/ ExternalProtect
    \/ ExternalWrite
    \/ TakeSnapshot
    \/ RestoreBegin
    \/ RestoreRegion
    \/ RestorePage
    \/ RestoreEnd

SpecMem == MemInit /\ [][MemNext]_vars


\* ======================================================= _ProcessContainer
Pids == 1 .. MaxPid
FileNames == {"", "a.exe"}
\* The modules that Process.scan_modules finds in a process it can open.
Mods == {"main"}

\* Process(dwProcessId, hProcess, fileName): no threads, no modules yet.
\* hProcess is None or the value of the handle that the object holds.
Process(hProcess, fileName) ==
    [fileName |-> fileName, threads |-> {}, modules |-> {}, hProcess |-> hProcess]
NewProcess(fileName) == Process(None, fileName)

\* _ThreadContainer.clear_threads / _ModuleContainer.clear_modules raise only
\* while they tear down a thread or a module.
ClearFaultApplies(p, fault) ==
    CASE fault = "threads" -> p.threads # {}
      [] fault = "modules" -> p.modules # {}
      [] OTHER -> TRUE

\* The collection that a clear leaves behind: as it was when it raised.
ClearThreads(p, fault) == IF fault = "threads" THEN p.threads ELSE {}
ClearModules(p, fault) == IF fault = "modules" THEN p.modules ELSE {}

\* Process.clear: clear_threads, then clear_modules, then close_handle, each
\* of them whatever the ones before it did.  The result is the object after
\* the call, with the handle it had, the handle that was closed and the clear
\* that raised.
Process_clear(p, fault) ==
    [fileName |-> p.fileName,
     threads |-> ClearThreads(p, fault),
     modules |-> ClearModules(p, fault),
     hProcess |-> None,
     had |-> p.hProcess,
     closed |-> p.hProcess,
     fault |-> fault]

\* _add_process / _del_process on the dictionary.
add_process(D, pid, aProcess) ==
    [q \in DOMAIN D \cup {pid} |-> IF q = pid THEN aProcess ELSE D[q]]
del_process(D, pid) == [q \in DOMAIN D \ {pid} |-> D[q]]
DelAll(D, pids) == [q \in DOMAIN D \ pids |-> D[q]]

\* A loop "for pid in dead_pids: self._del_process(pid)" in which the clear
\* of process at raises (None: no clear raises) after the processes of
\* before were deleted.
NoFault == [at |-> None, kind |-> "none", before |-> {}]
PurgeFaults(D, dead) ==
    {NoFault} \cup
    {f \in [at : dead, kind : {"threads", "modules"}, before : SUBSET dead] :
        f.at \notin f.before /\ ClearFaultApplies(D[f.at], f.kind)}
Purged(dead, f) == IF f.at = None THEN dead ELSE f.before \cup {f.at}
Torn(D, dead, f) ==
    [q \in Purged(dead, f) |->
        Process_clear(D[q], IF q = f.at THEN f.kind ELSE "none")]
\* The outcome of a scan method: the dictionary, the objects it tore down and
\* whether it raised.
Outcome(D, gone, raised) == [D |-> D, torn |-> gone, raised |-> raised]
Purge(D, dead, f) ==
    Outcome(DelAll(D, Purged(dead, f)), Torn(D, dead, f), f.at # None)

\* Lines 4184-4190 and 4315-4324: a reported (pid, fileName) pair.
AddOrName(D, pid, fileName) ==
    IF pid \notin DOMAIN D THEN add_process(D, pid, NewProcess(fileName))
    ELSE IF fileName # "" /\ D[pid].fileName = ""
    THEN [D EXCEPT ![pid].fileName = fileName]
    ELSE D

\* The same loop without the test of lines 4178 and 4300.
AddProcesses_ownToo(D, pe, todo) ==
    [q \in DOMAIN D \cup todo |->
        IF q \notin DOMAIN D THEN NewProcess(pe[q])
        ELSE IF q \in todo /\ pe[q] # "" /\ D[q].fileName = ""
        THEN [D[q] EXCEPT !.fileName = pe[q]]
        ELSE D[q]]

RECURSIVE AddProcesses(_, _, _)
AddProcesses(D, pe, todo) ==
    IF todo = {} THEN D
    ELSE LET pid == CHOOSE x \in todo : \A y \in todo : x <= y IN
         AddProcesses(IF pid # our_pid THEN AddOrName(D, pid, pe[pid]) ELSE D,
                      pe, todo \ {pid})

\* Lines 4194-4210: a thread entry (tid, owner).
RECURSIVE AddThreads(_, _, _)
AddThreads(D, te, todo) ==
    IF todo = {} THEN D
    ELSE LET tid == CHOOSE x \in todo : \A y \in todo : x <= y
             owner == te[tid]
             D1 == IF owner \in DOMAIN D THEN D
                   ELSE add_process(D, owner, NewProcess(""))
         IN  AddThreads(IF owner # our_pid
                        THEN [D1 EXCEPT ![owner].threads = @ \cup {tid}]
                        ELSE D,
                        te, todo \ {tid})

\* Lines 4217-4221: the threads that the snapshot did not list are deleted.
PurgeThreads(o, found_tids) ==
    IF o.raised THEN o
    ELSE [o EXCEPT !.D = [q \in DOMAIN o.D |->
                             [o.D[q] EXCEPT !.threads = @ \cap found_tids]]]

\* _ProcessContainer.scan_processes_and_threads (Toolhelp): pe maps the
\* process IDs listed to their file names, te the thread IDs to their owner.
ToolhelpFound(pe, te) == (DOMAIN pe \cup {te[t] : t \in DOMAIN te}) \ {our_pid}
ToolhelpDead(D, pe, te) == (DOMAIN D \ {our_pid}) \ ToolhelpFound(pe, te)
scan_processes_and_threads(D, pe, te, f) ==
    PurgeThreads(Purge(AddThreads(AddProcesses(D, pe, DOMAIN pe), te, DOMAIN te),
                       ToolhelpDead(D, pe, te), f),
                 {t \in DOMAIN te : te[t] # our_pid})

\* _ProcessContainer.scan_processes_fast (PSAPI): IDs only.
FastDead(D, pids) == (DOMAIN D \ {our_pid}) \ (pids \ {our_pid})
scan_processes_fast(D, pids, f) ==
    LET new_pids == pids \ {our_pid}
        old_pids == DOMAIN D \ {our_pid}
    IN  Purge([q \in DOMAIN D \cup (new_pids \ old_pids) |->
                  IF q \in DOMAIN D THEN D[q] ELSE NewProcess("")],
              old_pids \ new_pids, f)

\* _ProcessContainer.scan_processes (Remote Desktop API): wts maps the
\* process IDs listed to their names.
WtsDead(D, wts) == (DOMAIN D \ {our_pid}) \ DOMAIN wts
scan_processes(D, wts, f) ==
    Purge(AddProcesses(D, wts, DOMAIN wts), WtsDead(D, wts), f)

\* Lines 4119-4124: Process.scan_threads for the processes that have threads;
\* te is what the system lists, failing the processes whose scan fails.
BackfillThreads(D, te, failing) ==
    [q \in DOMAIN D |->
        IF D[q].threads # {} /\ q \notin failing
        THEN [D[q] EXCEPT !.threads = {t \in DOMAIN te : te[t] = q}]
        ELSE D[q]]

\* _ProcessContainer.scan_modules: Process.scan_modules for every process;
\* failing are the processes whose scan fails.
scan_modules(D, failing) ==
    [q \in DOMAIN D |->
        IF q \in failing THEN D[q] ELSE [D[q] EXCEPT !.modules = Mods]]

\* _ProcessContainer.scan_process_filenames: names are the path names that
\* Process.get_filename finds ("" when it finds none or fails).
scan_process_filenames(D, names) ==
    [q \in DOMAIN D |->
        IF names[q] # "" THEN [D[q] EXCEPT !.fileName = names[q]] ELSE D[q]]

ProcessLists == UNION {[ps -> FileNames] : ps \in SUBSET Pids}
ThreadLists == UNION {[ts -> Pids] : ts \in SUBSET Tids}

IdleSc == [pc |-> "idle"]
IdleProc == [pc |-> "idle"]
IdleLk == [op |-> "none", n |-> 0]
\* A method other than scan() has returned or raised.
Returned == [pc |-> "returned"]
NoTorn == << >>
Named(D) == {q \in DOMAIN D : D[q].fileName # ""}

\* The bookkeeping of one call of scan(): where it is, what the sources
\* reported, has_threads, the exception on its way out, the value returned;
\* and, for the statements, whether a step failed, the processes torn down
\* and the processes that had a file name when the call began.
ScanRun(D) ==
    [pc |-> "finally", reported |-> {}, has_threads |-> TRUE,
     raised |-> "none", result |-> FALSE,
     failed |-> FALSE, purged |-> {}, named |-> Named(D)]

\* _ProcessContainer.scan, lines 4107-4112: the Toolhelp scan.
ScanStart ==
    /\ scan.pc = "idle"
    /\ \E thOk \in BOOLEAN :
        IF thOk
        THEN \E pe \in ProcessLists, te \in ThreadLists :
             \E f \in PurgeFaults(processDict, ToolhelpDead(processDict, pe, te)) :
                LET o == scan_processes_and_threads(processDict, pe, te, f) IN
                /\ processDict' = o.D
                /\ torn' = o.torn
                /\ scan' = [ScanRun(processDict) EXCEPT
                               !.pc = IF o.raised THEN "fast" ELSE "finally",
                               !.reported = DOMAIN pe \cup {te[t] : t \in DOMAIN te},
                               !.failed = o.raised,
                               !.purged = DOMAIN o.torn]
        ELSE /\ processDict' = processDict
             /\ torn' = NoTorn
             /\ scan' = [ScanRun(processDict) EXCEPT !.pc = "fast", !.failed = TRUE]
    /\ lk' = IdleLk
    /\ UNCHANGED << memVars, proc, io >>

\* Lines 4114-4124: the Toolhelp scan raised; the PSAPI scan and the thread
\* scan of every process that has threads.
ScanFast ==
    /\ scan.pc = "fast"
    /\ \E fastOk \in BOOLEAN :
        IF fastOk
        THEN \E pids \in SUBSET Pids :
             \E f \in PurgeFaults(processDict, FastDead(processDict, pids)) :
                LET o == scan_processes_fast(processDict, pids, f) IN
                /\ torn' = o.torn
                /\ IF o.raised
                   THEN /\ processDict' = o.D
                        /\ scan' = [scan EXCEPT !.pc = "finally",
                                                !.raised = "WindowsError",
                                                !.reported = @ \cup pids,
                                                !.purged = @ \cup DOMAIN o.torn]
                   ELSE \E te \in ThreadLists :
                        \E failing \in SUBSET {q \in DOMAIN o.D : o.D[q].threads # {}} :
                            /\ processDict' = BackfillThreads(o.D, te, failing)
                            /\ scan' = [scan EXCEPT !.pc = "finally",
                                                    !.reported = @ \cup pids,
                                                    !.has_threads = (failing = {}),
                                                    !.purged = @ \cup DOMAIN o.torn]
        ELSE /\ processDict' = processDict
             /\ torn' = NoTorn
             /\ scan' = [scan EXCEPT !.pc = "finally", !.raised = "WindowsError"]
    /\ UNCHANGED << lk, memVars, proc, io >>

\* Lines 4126-4130: the finally clause, scan_processes.
ScanFinally ==
    /\ scan.pc = "finally"
    /\ \E wtsOk \in BOOLEAN :
        IF wtsOk
        THEN \E wts \in ProcessLists :
             \E f \in PurgeFaults(processDict, WtsDead(processDict, wts)) :
                LET o == scan_processes(processDict, wts, f) IN
                /\ processDict' = o.D
                /\ torn' = o.torn
                /\ scan' = [scan EXCEPT
                               !.reported = @ \cup DOMAIN wts,
                               !.purged = @ \cup DOMAIN o.torn,
                               !.failed = @ \/ o.raised,
                               !.raised = IF o.raised THEN "WindowsError" ELSE @,
                               !.pc = IF scan.raised = "none" /\ ~o.raised
                                      THEN "rest" ELSE "done"]
        ELSE /\ processDict' = processDict
             /\ torn' = NoTorn
             /\ scan' = [scan EXCEPT !.pc = "done", !.failed = TRUE,
                                     !.raised = "WindowsError"]
    /\ UNCHANGED << lk, memVars, proc, io >>

\* Lines 4132-4139: scan_modules, scan_process_filenames and the result.
ScanRest ==
    /\ scan.pc = "rest"
    /\ \E noModules \in SUBSET DOMAIN processDict,
          names \in [DOMAIN processDict -> FileNames] :
        /\ processDict' = scan_process_filenames(
                              scan_modules(processDict, noModules), names)
        /\ scan' = [scan EXCEPT
                       !.pc = "done",
                       !.failed = \/ scan.failed
                                  \/ noModules # {}
                                  \/ \E q \in DOMAIN names : names[q] = "",
                       !.result = /\ scan.has_threads
                                  /\ noModules = {}
                                  /\ \A q \in DOMAIN names : names[q] # ""]
    /\ torn' = NoTorn
    /\ UNCHANGED << lk, memVars, proc, io >>

\* scan() has returned or raised; the container is used again.
ScanReturn ==
    /\ scan.pc \in {"done", "returned"}
    /\ scan' = IdleSc
    /\ torn' = NoTorn
    /\ lk' = [op |-> "none", n |-> lk.n]
    /\ UNCHANGED << processDict, memVars, proc, io >>

\* The scan methods called on their own.
ScanProcessesAndThreads ==
    /\ scan.pc = "idle"
    /\ \E pe \in ProcessLists, te \in ThreadLists :
       \E f \in PurgeFaults(processDict, ToolhelpDead(processDict, pe, te)) :
          LET o == scan_processes_and_threads(processDict, pe, te, f) IN
          /\ processDict' = o.D
          /\ torn' = o.torn
    /\ lk' = IdleLk
    /\ scan' = Returned
    /\ UNCHANGED << memVars, proc, io >>

ScanProcessesFast ==
    /\ scan.pc = "idle"
    /\ \E pids \in SUBSET Pids :
       \E f \in PurgeFaults(processDict, FastDead(processDict, pids)) :
          LET o == scan_processes_fast(processDict, pids, f) IN
          /\ processDict' = o.D
          /\ torn' = o.torn
    /\ lk' = IdleLk
    /\ scan' = Returned
    /\ UNCHANGED << memVars, proc, io >>

ScanProcesses ==
    /\ scan.pc = "idle"
    /\ \E wts \in ProcessLists :
       \E f \in PurgeFaults(processDict, WtsDead(processDict, wts)) :
          LET o == scan_processes(processDict, wts, f) IN
          /\ processDict' = o.D
          /\ torn' = o.torn
    /\ lk' = IdleLk
    /\ scan' = Returned
    /\ UNCHANGED << memVars, proc, io >>

ScanProcessFilenames ==
    /\ scan.pc = "idle"
    /\ \E names \in [DOMAIN processDict -> FileNames] :
          processDict' = scan_process_filenames(processDict, names)
    /\ torn' = NoTorn
    /\ lk' = IdleLk
    /\ scan' = Returned
    /\ UNCHANGED << memVars, proc, io >>

\* _ProcessContainer._notify_create_process: the event carries the ID of the
\* new process, the handle that the system opened for the debugger, the file
\* name if known and the ID of the main thread.  Process._notify_create_process
\* then adds the main thread and the main module.  (The system never reports
\* the debugger to itself: it cannot attach to its own process.)
EventHandle(pid) == pid
notify_create_process(D, pid, fileName, tid) ==
    LET D1 == IF pid \notin DOMAIN D
              THEN add_process(D, pid, Process(EventHandle(pid), fileName))
              ELSE IF D[pid].fileName = "" /\ fileName # ""
              THEN [D EXCEPT ![pid].fileName = fileName]
              ELSE D
    IN  [D1 EXCEPT ![pid].threads = @ \cup {tid}, ![pid].modules = Mods]

NotifyCreateProcess ==
    /\ scan.pc = "idle"
    /\ \E pid \in Pids \ {our_pid}, fileName \in FileNames, tid \in Tids :
          processDict' = notify_create_process(processDict, pid, fileName, tid)
    /\ torn' = NoTorn
    /\ lk' = IdleLk
    /\ scan' = Returned
    /\ UNCHANGED << memVars, proc, io >>

\* _ProcessContainer._notify_exit_process.
NotifyExitProcess ==
    /\ scan.pc = "idle"
    /\ \E pid \in DOMAIN processDict :
       \E f \in PurgeFaults(processDict, {pid}) :
          LET o == Purge(processDict, {pid}, f) IN
          /\ processDict' = o.D
          /\ torn' = o.torn
    /\ lk' = IdleLk
    /\ scan' = Returned
    /\ UNCHANGED << memVars, proc, io >>

\* _ProcessContainer.__initialize_snapshot: only an empty dictionary is
\* filled, by scan_processes or, when it raises, by scan_processes_fast, and
\* then by scan_process_filenames.  src says which source answers: "wts",
\* "fast" or "none" (both raise).
Sources == {"wts", "fast", "none"}
SnapshotNames == [Pids \ {our_pid} -> FileNames]
\* The same without the test of line 3568.
initialize_snapshot_always(D, src, wts, pids, names) ==
    IF src = "wts"
    THEN [D |-> scan_process_filenames(scan_processes(D, wts, NoFault).D, names),
          scanned |-> TRUE, raised |-> FALSE]
    ELSE IF src = "fast"
    THEN [D |-> scan_process_filenames(scan_processes_fast(D, pids, NoFault).D, names),
          scanned |-> TRUE, raised |-> FALSE]
    ELSE [D |-> D, scanned |-> TRUE, raised |-> TRUE]

initialize_snapshot(D, src, wts, pids, names) ==
    IF D # << >> THEN [D |-> D, scanned |-> FALSE, raised |-> FALSE]
    ELSE IF src = "wts"
    THEN [D |-> scan_process_filenames(scan_processes(D, wts, NoFault).D, names),
          scanned |-> TRUE, raised |-> FALSE]
    ELSE IF src = "fast"
    THEN [D |-> scan_process_filenames(scan_processes_fast(D, pids, NoFault).D, names),
          scanned |-> TRUE, raised |-> FALSE]
    ELSE [D |-> D, scanned |-> TRUE, raised |-> TRUE]

\* The answers of the system that __initialize_snapshot may use.
SnapshotInputs(D) ==
    IF D # << >>
    THEN {[src |-> "none", wts |-> << >>, pids |-> {}, names |-> << >>]}
    ELSE [src : {"wts"}, wts : ProcessLists, pids : {{}}, names : SnapshotNames]
         \cup [src : {"fast"}, wts : {<< >>}, pids : SUBSET Pids, names : SnapshotNames]
         \cup {[src |-> "none", wts |-> << >>, pids |-> {}, names |-> << >>]}
Snapshot(D, i) == initialize_snapshot(D, i.src, i.wts, i.pids, i.names)

\* The record of a lookup: the method, its argument, what it returned or
\* raised, whether it invoked the enumeration sources, and how many lookups
\* in a row did so and returned.
MaxLookupScans == 2
LookupScans(s) ==
    IF s.scanned /\ ~s.raised /\ lk.n < MaxLookupScans THEN lk.n + 1 ELSE lk.n
Looked(op, pid, s, ret) ==
    [op |-> op, pid |-> pid, scanned |-> s.scanned,
     ret |-> IF s.raised THEN "WindowsError" ELSE ret, n |-> LookupScans(s)]

\* _ProcessContainer.has_process.
HasProcess ==
    /\ scan.pc = "idle"
    /\ \E pid \in Pids, i \in SnapshotInputs(processDict) :
          LET s == Snapshot(processDict, i) IN
          /\ processDict' = s.D
          /\ lk' = Looked("has_process", pid, s,
                          IF pid \in DOMAIN s.D THEN "True" ELSE "False")
    /\ torn' = NoTorn
    /\ scan' = Returned
    /\ UNCHANGED << memVars, proc, io >>

\* _ProcessContainer.get_process.
GetProcess ==
    /\ scan.pc = "idle"
    /\ \E pid \in Pids, i \in SnapshotInputs(processDict) :
          LET s == Snapshot(processDict, i) IN
          /\ processDict' = s.D
          /\ lk' = Looked("get_process", pid, s,
                          IF pid \in DOMAIN s.D THEN "Process" ELSE "KeyError")
    /\ torn' = NoTorn
    /\ scan' = Returned
    /\ UNCHANGED << memVars, proc, io >>

\* _ProcessContainer.get_process_ids, and likewise iter_process_ids,
\* iter_processes and get_process_count: the snapshot is initialized and the
\* dictionary is read.
GetProcessIds ==
    /\ scan.pc = "idle"
    /\ \E i \in SnapshotInputs(processDict) :
          LET s == Snapshot(processDict, i) IN
          /\ processDict' = s.D
          /\ lk' = Looked("get_process_ids", None, s, "ids")
    /\ torn' = NoTorn
    /\ scan' = Returned
    /\ UNCHANGED << memVars, proc, io >>

\* _ProcessContainer.clear_processes: iter_processes (which initializes the
\* snapshot), Process.clear of each object, then a new dictionary.  A clear
\* that raises leaves the dictionary in place with the objects cleared so far.
ClearInPlace(D, f) ==
    [q \in DOMAIN D |->
        IF q \in Purged(DOMAIN D, f)
        THEN LET c == Process_clear(D[q], IF q = f.at THEN f.kind ELSE "none")
             IN  [fileName |-> c.fileName, threads |-> c.threads,
                  modules |-> c.modules, hProcess |-> c.hProcess]
        ELSE D[q]]
clear_processes(D, f) ==
    IF f.at = None THEN Outcome(<< >>, Torn(D, DOMAIN D, f), FALSE)
    ELSE Outcome(ClearInPlace(D, f), NoTorn, TRUE)

ClearProcesses ==
    /\ scan.pc = "idle"
    /\ \E i \in SnapshotInputs(processDict) :
          LET s == Snapshot(processDict, i) IN
          IF s.raised
          THEN /\ processDict' = s.D
               /\ torn' = NoTorn
          ELSE \E f \in PurgeFaults(s.D, DOMAIN s.D) :
                  LET o == clear_processes(s.D, f) IN
                  /\ processDict' = o.D
                  /\ torn' = o.torn
    /\ lk' = IdleLk
    /\ scan' = Returned
    /\ UNCHANGED << memVars, proc, io >>

ScanNext ==
    \/ ScanStart
    \/ ScanFast
    \/ ScanFinally
    \/ ScanRest
    \/ ScanReturn
    \/ ScanProcessesAndThreads
    \/ ScanProcessesFast
    \/ ScanProcesses
    \/ ScanProcessFilenames

\* The container in a debugging session: notifications, lookups, scans of
\* one source and clear_processes.
ContNext ==
    \/ NotifyCreateProcess
    \/ NotifyExitProcess
    \/ HasProcess
    \/ GetProcess
    \/ GetProcessIds
    \/ ClearProcesses
    \/ ScanProcessesAndThreads
    \/ ScanProcessesFast
    \/ ScanProcesses
    \/ ScanReturn

ScanInitState ==
    /\ mem = LayoutMem([p \in Pages |-> FreePage])
    /\ susp = [t \in Tids |-> 0]
    /\ threads = {}
    /\ snapshot = << >>
    /\ rs = IdleRs
    /\ ext = 0
    /\ h = InitH
    /\ processDict = << >>
    /\ scan = IdleSc
    /\ torn = NoTorn
    /\ lk = IdleLk
    /\ proc = IdleProc
    /\ io = IdleIo

SpecScan == ScanInitState /\ [][ScanNext]_vars
SpecCont == ScanInitState /\ [][ContNext]_vars

\* ------------------------------------------------- the handle of a Process
\* An access mask is the set of its bits; | is the union.
Rights == 1 .. NRights
Masks == SUBSET Rights
PROCESS_ALL_ACCESS == Rights
INVALID_HANDLE_VALUE == 0 - 2
\* The handle passed to Process(dwProcessId, hProcess); the handles that
\* OpenProcess returns are 1, 2, ...
GivenHandle == 0
HandleValues == 0 .. MaxOpens

OsCall(op, handle, mask, ok) ==
    [op |-> op, handle |-> handle, mask |-> mask, ok |-> ok]

\* Process.close_handle: the handle object is closed, if there is one, and
\* forgotten even when closing raises.  Closing fails when the system no
\* longer knows the handle.
Process_close_handle(p) ==
    IF p.hProcess \in {None, INVALID_HANDLE_VALUE}
    THEN [p EXCEPT !.hProcess = None, !.dwAccess = {}, !.raised = FALSE]
    ELSE [p EXCEPT !.hProcess = None, !.dwAccess = {},
                   !.osOpen = @ \ {p.hProcess},
                   !.calls = Append(@, OsCall("CloseHandle", p.hProcess, {},
                                              p.hProcess \in p.osOpen)),
                   !.raised = p.hProcess \notin p.osOpen]

\* Lines 143-149: the old handle is closed, a failure is only a warning, and
\* the new handle is kept.
KeepNew(closed, hProcess, dwAccess) ==
    [closed EXCEPT !.hProcess = hProcess, !.dwAccess = dwAccess,
                   !.warned = closed.raised, !.raised = FALSE]

\* open_handle that closes the handle held before it asks for the new one.
Process_open_handle_closesFirst(p, dwDesiredAccess, ok) ==
    IF ~ok
    THEN [Process_close_handle(p) EXCEPT
             !.calls = Append(@, OsCall("OpenProcess", None,
                                        dwDesiredAccess, FALSE)),
             !.raised = TRUE]
    ELSE KeepNew(Process_close_handle(
                     [p EXCEPT !.calls = Append(@, OsCall("OpenProcess", p.next,
                                                        dwDesiredAccess, TRUE)),
                               !.osOpen = @ \cup {p.next},
                               !.next = @ + 1]),
                 p.next, dwDesiredAccess)

\* open_handle that overwrites self.hProcess without closing the handle held.
Process_open_handle_noClose(p, dwDesiredAccess, ok) ==
    IF ~ok
    THEN [p EXCEPT !.calls = Append(@, OsCall("OpenProcess", None,
                                            dwDesiredAccess, FALSE)),
                   !.raised = TRUE]
    ELSE [p EXCEPT !.calls = Append(@, OsCall("OpenProcess", p.next,
                                            dwDesiredAccess, TRUE)),
                   !.osOpen = @ \cup {p.next},
                   !.next = @ + 1,
                   !.hProcess = p.next,
                   !.dwAccess = dwDesiredAccess]

\* Process.open_handle; ok tells whether win32.OpenProcess succeeds, and the
\* system grants the mask that was asked for.
Process_open_handle(p, dwDesiredAccess, ok) ==
    IF ~ok
    THEN [p EXCEPT !.calls = Append(@, OsCall("OpenProcess", None,
                                            dwDesiredAccess, FALSE)),
                   !.raised = TRUE]
    ELSE KeepNew(Process_close_handle(
                     [p EXCEPT !.calls = Append(@, OsCall("OpenProcess", p.next,
                                                        dwDesiredAccess, TRUE)),
                               !.osOpen = @ \cup {p.next},
                               !.next = @ + 1]),
                 p.next, dwDesiredAccess)

\* Line 202: return self.hProcess.
ReturnHandle(p) ==
    IF p.raised THEN p ELSE [p EXCEPT !.ret = p.hProcess, !.retAccess = p.dwAccess]

\* get_handle that returns the handle held whatever its mask.
Process_get_handle_keepsHeld(p, dwDesiredAccess, ok) ==
    ReturnHandle(IF p.hProcess \in {None, INVALID_HANDLE_VALUE}
                 THEN Process_open_handle(p, dwDesiredAccess, ok)
                 ELSE p)

\* get_handle that opens the new handle with the mask asked for alone.
Process_get_handle_noMerge(p, dwDesiredAccess, ok) ==
    ReturnHandle(IF p.hProcess \in {None, INVALID_HANDLE_VALUE}
                 THEN Process_open_handle(p, dwDesiredAccess, ok)
                 ELSE IF (p.dwAccess \cup dwDesiredAccess) # p.dwAccess
                 THEN Process_open_handle(p, dwDesiredAccess, ok)
                 ELSE p)

\* Process.get_handle.
Process_get_handle(p, dwDesiredAccess, ok) ==
    ReturnHandle(IF p.hProcess \in {None, INVALID_HANDLE_VALUE}
                 THEN Process_open_handle(p, dwDesiredAccess, ok)
                 ELSE IF (p.dwAccess \cup dwDesiredAccess) # p.dwAccess
                 THEN Process_open_handle(p, p.dwAccess \cup dwDesiredAccess, ok)
                 ELSE p)

\* The Process object when a method is called: nothing called, raised or
\* returned yet.  before is the handle held and its mask at the call, prev
\* the mask asked of get_handle if the last call was a get_handle that
\* returned.
Calling(p, op, arg) ==
    [p EXCEPT !.op = op, !.arg = arg, !.calls = << >>, !.raised = FALSE,
              !.warned = FALSE, !.ret = None, !.retAccess = {},
              !.before = [hProcess |-> p.hProcess, dwAccess |-> p.dwAccess],
              !.prev = IF p.op = "get_handle" /\ ~p.raised THEN p.arg ELSE {}]

\* Process(dwProcessId) or Process(dwProcessId, hProcess).
NewHandleState(hProcess, dwAccess) ==
    [hProcess |-> hProcess, dwAccess |-> dwAccess,
     osOpen |-> IF hProcess = GivenHandle THEN {GivenHandle} ELSE {},
     next |-> 1, op |-> "init", arg |-> {}, calls |-> << >>, raised |-> FALSE,
     warned |-> FALSE, ret |-> None, retAccess |-> {},
     before |-> [hProcess |-> hProcess, dwAccess |-> dwAccess], prev |-> {}]

OpenHandle ==
    /\ proc.next <= MaxOpens
    /\ \E dwDesiredAccess \in Masks, ok \in BOOLEAN :
          proc' = Process_open_handle(Calling(proc, "open_handle", dwDesiredAccess),
                                      dwDesiredAccess, ok)
    /\ UNCHANGED << memVars, processDict, scan, torn, lk, io >>

GetHandle ==
    /\ proc.next <= MaxOpens
    /\ \E dwDesiredAccess \in Masks, ok \in BOOLEAN :
          proc' = Process_get_handle(Calling(proc, "get_handle", dwDesiredAccess),
                                     dwDesiredAccess, ok)
    /\ UNCHANGED << memVars, processDict, scan, torn, lk, io >>

CloseHandle ==
    /\ proc' = Process_close_handle(Calling(proc, "close_handle", {}))
    /\ UNCHANGED << memVars, processDict, scan, torn, lk, io >>

\* Process.clear, lines 420-426, as the handle sees it: close_handle is in the
\* outer finally and runs whatever clear_threads and clear_modules did; fault
\* names the one that raises ("none", "threads", "modules").
Process_clear_closes(p, fault) ==
    [Process_close_handle(p) EXCEPT
        !.raised = (fault # "none") \/ Process_close_handle(p).raised]

Clear ==
    /\ \E fault \in {"none", "threads", "modules"} :
          proc' = Process_clear_closes(Calling(proc, "clear", {}), fault)
    /\ UNCHANGED << memVars, processDict, scan, torn, lk, io >>

\* The owner of the handle that was passed to the constructor closes it (the
\* handle of a debug event is closed by the system when the event is
\* continued).
ExternalClose ==
    /\ proc.hProcess = GivenHandle
    /\ GivenHandle \in proc.osOpen
    /\ proc' = [proc EXCEPT !.osOpen = @ \ {GivenHandle}, !.op = "external"]
    /\ UNCHANGED << memVars, processDict, scan, torn, lk, io >>

HandleNext ==
    \/ OpenHandle
    \/ GetHandle
    \/ CloseHandle
    \/ Clear
    \/ ExternalClose

HandleInit ==
    /\ mem = LayoutMem([p \in Pages |-> FreePage])
    /\ susp = [t \in Tids |-> 0]
    /\ threads = {}
    /\ snapshot = << >>
    /\ rs = IdleRs
    /\ ext = 0
    /\ h = InitH
    /\ processDict = << >>
    /\ scan = IdleSc
    /\ torn = NoTorn
    /\ lk = IdleLk
    /\ io = IdleIo
    /\ \/ proc = NewHandleState(None, {})
       \/ proc = NewHandleState(INVALID_HANDLE_VALUE, {})
       \/ \E dwAccess \in Masks : proc = NewHandleState(GivenHandle, dwAccess)

SpecHandle == HandleInit /\ [][HandleNext]_vars

\* ------------------------------------- the memory operations of a Process
\* The address spaces the operations are tried on: every page free, reserved,
\* or committed with one of these protections and types.
IoPageKinds ==
    {FreePage,
     ReservedPage,
     CommittedPage("PAGE_READONLY", MEM_PRIVATE),
     CommittedPage("PAGE_READWRITE", MEM_PRIVATE),
     CommittedPage("PAGE_EXECUTE_READ", MEM_PRIVATE),
     CommittedPage("PAGE_GUARD", MEM_PRIVATE),
     CommittedPage("PAGE_NOACCESS", MEM_PRIVATE),
     CommittedPage("PAGE_READONLY", MEM_IMAGE),
     CommittedPage("PAGE_READWRITE", MEM_MAPPED)}

\* The kinds that differ for the operations that only query and read.
ReadPageKinds ==
    {FreePage,
     ReservedPage,
     CommittedPage("PAGE_READONLY", MEM_PRIVATE),
     CommittedPage("PAGE_GUARD", MEM_PRIVATE),
     CommittedPage("PAGE_NOACCESS", MEM_PRIVATE),
     CommittedPage("PAGE_READWRITE", MEM_MAPPED)}

\* Addresses a caller may pass: any pointer, or None where it is optional.
Pointers == 0 .. LPVOID_MAX

IoFrame ==
    UNCHANGED << susp, threads, snapshot, rs, ext, h, processDict, scan, torn, lk,
                 proc >>

\* list(Process.iter_memory_map(minAddr, maxAddr)); lo and hi are the range
\* after align_address_range.
IterMemoryMap ==
    \E minAddr \in Pointers \cup {None}, maxAddr \in Pointers \cup {None} :
        /\ io = IdleIo
        /\ (minAddr = None \/ maxAddr = None \/ minAddr <= maxAddr)
        /\ io' = [op |-> "iter_memory_map", minAddr |-> minAddr,
                  maxAddr |-> maxAddr,
                  lo |-> align_address_range(minAddr, maxAddr)[1],
                  hi |-> align_address_range(minAddr, maxAddr)[2],
                  out |-> iter_memory_map(mem, minAddr, maxAddr)]
        /\ UNCHANGED mem
        /\ IoFrame

\* The caller has the outcome; the next operation may start.
IoReturn ==
    /\ io # IdleIo
    /\ ~(io.op = "map_loop" /\ io.pc = "loop")
    /\ io' = IdleIo
    /\ UNCHANGED mem
    /\ IoFrame

\* Process.iter_memory_map one query at a time, whatever the system answers.
\* Lines 2735-2737: the range is aligned and the cursor set.
MapBegin ==
    \E minAddr \in Pointers \cup {None}, maxAddr \in Pointers \cup {None} :
        /\ io = IdleIo
        /\ (minAddr = None \/ maxAddr = None \/ minAddr <= maxAddr)
        /\ io' = [op |-> "map_loop", pc |-> "loop",
                  prevAddr |-> align_address_range(minAddr, maxAddr)[1] - 1,
                  currentAddr |-> align_address_range(minAddr, maxAddr)[1],
                  maxAddr |-> align_address_range(minAddr, maxAddr)[2],
                  yielded |-> FALSE, why |-> "none"]
        /\ UNCHANGED mem
        /\ IoFrame

\* What win32.VirtualQueryEx may answer: a region of any base and size, the
\* error ERROR_INVALID_PARAMETER, or another error.
QueryAnswers ==
    {[kind |-> "mbi", BaseAddress |-> b, RegionSize |-> n] :
        b \in Pointers, n \in 0 .. AddrLimit}
    \cup {[kind |-> "ERROR_INVALID_PARAMETER"], [kind |-> "WindowsError"]}

\* Lines 2738-2747: the loop test and, when it holds, one pass of the body.
MapQuery ==
    /\ io.op = "map_loop" /\ io.pc = "loop"
    /\ IF ~MapLoopRuns(io.prevAddr, io.currentAddr, io.maxAddr)
       THEN io' = [io EXCEPT !.pc = "done",
                             !.why = IF io.currentAddr >= io.maxAddr
                                     THEN "maxAddr" ELSE "not increasing"]
       ELSE \E mbi \in QueryAnswers :
               io' = IF mbi.kind = "ERROR_INVALID_PARAMETER"
                     THEN [io EXCEPT !.pc = "done", !.why = mbi.kind]
                     ELSE IF mbi.kind = "WindowsError"
                     THEN [io EXCEPT !.pc = "raised", !.why = mbi.kind]
                     ELSE [io EXCEPT !.yielded = TRUE,
                                     !.prevAddr = io.currentAddr,
                                     !.currentAddr = mbi.BaseAddress + mbi.RegionSize]
    /\ UNCHANGED mem
    /\ IoFrame

MapNext ==
    \/ MapBegin
    \/ MapQuery
    \/ IoReturn

\* The ranges that read, peek and poke are tried on lie within the addresses
\* that can be queried.
\* Process.read(address, size), size > 0.
Read ==
    \E address \in Addrs, size \in 1 .. AddrLimit :
        /\ io = IdleIo
        /\ InRange(address, size)
        /\ io' = [op |-> "read", address |-> address, size |-> size,
                  res |-> read(mem, address, size)]
        /\ UNCHANGED mem
        /\ IoFrame

PeekFaults == {"none", "query", "read"}

\* Process.peek(address, size), size > 0.
Peek ==
    \E address \in Addrs, size \in 1 .. AddrLimit, fault \in PeekFaults :
        /\ io = IdleIo
        /\ InRange(address, size)
        /\ io' = [op |-> "peek", address |-> address, size |-> size,
                  fault |-> fault, res |-> peek(mem, address, size, fault)]
        /\ UNCHANGED mem
        /\ IoFrame

\* The outcome res of a poke, with what the call started from: mbi is the
\* region of the address and before the pages as they were.
Poked(address, lpBuffer, fault, res) ==
    /\ io' = [op |-> "poke", address |-> address, size |-> Len(lpBuffer),
              fault |-> fault, mbi |-> VirtualQueryEx(mem, address),
              before |-> mem.pg, err |-> res.err, r |-> res.r,
              calls |-> res.calls]
    /\ mem' = res.M

\* Process.poke(address, buffer): a buffer of zeroes of any size.
Poke ==
    \E address \in Addrs, size \in 1 .. AddrLimit, fault \in {"none", "write"} :
        /\ io = IdleIo
        /\ InRange(address, size)
        /\ Poked(address, [i \in 1 .. size |-> 0], fault,
                 poke(mem, address, [i \in 1 .. size |-> 0], fault))
        /\ IoFrame

PokeNext ==
    \/ Poke
    \/ IoReturn

\* Process.take_memory_snapshot(minAddr, maxAddr).
TakeMemorySnapshot ==
    \E minAddr \in Pointers \cup {None}, maxAddr \in Pointers \cup {None} :
        /\ io = IdleIo
        /\ (minAddr = None \/ maxAddr = None \/ minAddr <= maxAddr)
        /\ io' = [op |-> "take_memory_snapshot", minAddr |-> minAddr,
                  maxAddr |-> maxAddr,
                  res |-> take_memory_snapshot(mem, minAddr, maxAddr)]
        /\ UNCHANGED mem
        /\ IoFrame

IoNext ==
    \/ IterMemoryMap
    \/ Read
    \/ Peek
    \/ TakeMemorySnapshot
    \/ IoReturn

IoIdle ==
    /\ susp = [t \in Tids |-> 0]
    /\ threads = {}
    /\ snapshot = << >>
    /\ rs = IdleRs
    /\ ext = 0
    /\ h = InitH
    /\ processDict = << >>
    /\ scan = IdleSc
    /\ torn = NoTorn
    /\ lk = IdleLk
    /\ proc = IdleProc
    /\ io = IdleIo

IoInit ==
    /\ mem \in {LayoutMem(f) : f \in [Pages -> ReadPageKinds]}
    /\ IoIdle

PokeInit ==
    /\ mem \in {LayoutMem(f) : f \in [Pages -> IoPageKinds]}
    /\ IoIdle

\* The kinds that differ for the tests of a buffer's protection.
BufPageKinds ==
    {FreePage,
     CommittedPage("PAGE_READONLY", MEM_PRIVATE),
     CommittedPage("PAGE_READWRITE", MEM_PRIVATE),
     CommittedPage("PAGE_EXECUTE_READ", MEM_PRIVATE),
     CommittedPage("PAGE_EXECUTE_READWRITE", MEM_PRIVATE)}

\* Process.is_buffer_executable_and_writeable(address, size), size > 0.
IsBufferExecutableAndWriteable ==
    \E address \in Addrs, size \in 1 .. AddrLimit :
        /\ io = IdleIo
        /\ InRange(address, size)
        /\ io' = [op |-> "is_buffer_executable_and_writeable",
                  address |-> address, size |-> size,
                  res |-> is_buffer_executable_and_writeable(mem, address, size)]
        /\ UNCHANGED mem
        /\ IoFrame

BufNext ==
    \/ IsBufferExecutableAndWriteable
    \/ IoReturn

BufInit ==
    /\ mem \in {LayoutMem(f) : f \in [Pages -> BufPageKinds]}
    /\ IoIdle

SpecBuf == BufInit /\ [][BufNext]_vars

\* The answers of the query are inputs of MapQuery: the address space does
\* not matter there.
MapInit ==
    /\ mem = LayoutMem([p \in Pages |-> FreePage])
    /\ IoIdle

SpecIo == IoInit /\ [][IoNext]_vars
SpecPoke == PokeInit /\ [][PokeNext]_vars

\* The caller of list() runs the generator until it ends: a loop that can
\* take its next step takes it.
SpecMap == MapInit /\ [][MapNext]_vars /\ WF_vars(MapQuery)

\* ------------------------------------ _ProcessContainer.start_process
\* win32.PROCESS_INFORMATION of a new process: its IDs, its handle and the
\* handle of its main thread.
ProcessInformation(pid, tid) ==
    [dwProcessId |-> pid, hProcess |-> EventHandle(pid),
     dwThreadId |-> tid, hThread |-> MaxPid + tid]

\* Lines 3935, 4000 and 4014: the call that creates the process.
CreateApi(iTrustLevel, bAllowElevation) ==
    IF iTrustLevel >= 2 /\ bAllowElevation THEN "CreateProcess"
    ELSE IF bAllowElevation THEN "CreateProcessAsUser"
    ELSE "CreateProcessWithToken"

\* The step that raises: get_handle of the parent, the token of the hard
\* way, the creation, DebugActiveProcess, ResumeThread, hToken.close() or
\* the wrapping in a Thread object.
StartFaults ==
    {"none", "get_handle", "token", "create", "debug", "resume", "close_token",
     "thread"}
StartFaultApplies(a) ==
    CASE a.fault = "get_handle" -> a.dwParentProcessId \notin {None, our_pid}
      [] a.fault \in {"token", "close_token"} ->
            CreateApi(a.iTrustLevel, a.bAllowElevation) # "CreateProcess"
      [] a.fault = "debug" ->
            /\ CreateApi(a.iTrustLevel, a.bAllowElevation) = "CreateProcessWithToken"
            /\ a.bDebug
      [] a.fault = "resume" ->
            /\ CreateApi(a.iTrustLevel, a.bAllowElevation) = "CreateProcessWithToken"
            /\ ~a.bSuspended
      [] OTHER -> TRUE

\* Lines 3909-3911: get_handle of the parent; a tracked parent keeps the
\* handle in its Process object.
ParentHandle(D, parent) ==
    IF parent \in DOMAIN D
    THEN [D EXCEPT ![parent].hProcess = EventHandle(parent)]
    ELSE D

\* Lines 3902-3911 after has_process answered with the snapshot s.
StartParentFrom(s, a) ==
    IF s.raised \/ a.fault = "get_handle" THEN [D |-> s.D, raised |-> TRUE]
    ELSE [D |-> ParentHandle(s.D, a.dwParentProcessId), raised |-> FALSE]

\* Lines 3902-3930: the parent process, if one is asked for.
StartParent(D, a) ==
    IF a.dwParentProcessId \in {None, our_pid} THEN [D |-> D, raised |-> FALSE]
    ELSE StartParentFrom(Snapshot(D, a.snap), a)

\* The new process as the system has it when the call ends: whether it runs
\* and which of the handles of pi are open.
NoNewProcess == [running |-> FALSE, open |-> {}]
Created(a) == [running |-> ~a.exited, open |-> {"hProcess", "hThread"}]

\* Lines 4055-4063 with the error of TerminateProcess not swallowed.
StartCleanup_reraises(os) ==
    IF os.running THEN [running |-> FALSE, open |-> {}]
    ELSE os

\* Lines 4055-4063: TerminateProcess, which fails on a process that has
\* exited already, then both handles are closed.
StartCleanup(os) == [running |-> FALSE, open |-> {}]

\* Lines 4049-4052: the Process and Thread objects.
StartWrap(pi) ==
    [Process(pi.hProcess, "") EXCEPT !.threads = {pi.dwThreadId}]

\* Lines 3932-4066 on the dictionary D.
StartTry(D, a) ==
    IF a.fault \in {"token", "create"}
    THEN [D |-> D, raised |-> TRUE, created |-> FALSE, atCreate |-> D,
          os |-> NoNewProcess, ret |-> NewProcess("")]
    ELSE IF a.fault # "none"
    THEN [D |-> D, raised |-> TRUE, created |-> TRUE, atCreate |-> D,
          os |-> StartCleanup(Created(a)), ret |-> NewProcess("")]
    ELSE [D |-> add_process(D, a.pid, StartWrap(ProcessInformation(a.pid, a.tid))),
          raised |-> FALSE, created |-> TRUE, atCreate |-> D,
          os |-> Created(a), ret |-> StartWrap(ProcessInformation(a.pid, a.tid))]

StartAfterParent(p, a) ==
    IF p.raised
    THEN [D |-> p.D, raised |-> TRUE, created |-> FALSE, atCreate |-> p.D,
          os |-> NoNewProcess, ret |-> NewProcess("")]
    ELSE StartTry(p.D, a)

\* _ProcessContainer.start_process(lpCmdLine, **kwargs): the dictionary
\* after the call, whether it raised, whether the system created the
\* process, the dictionary at that moment, the new process and the object
\* returned.
start_process(D, a) == StartAfterParent(StartParent(D, a), a)

\* The arguments, the IDs the system gives to the new process and its main
\* thread, whether the process has exited on its own, the step that fails
\* and the answers to has_process.
StartInputs(D) ==
    {a \in [dwParentProcessId : (Pids \cup {None}), iTrustLevel : 0 .. 2,
            bAllowElevation : BOOLEAN, bDebug : BOOLEAN, bSuspended : BOOLEAN,
            pid : Pids \ {our_pid}, tid : Tids, exited : BOOLEAN,
            fault : StartFaults, snap : SnapshotInputs(D)] :
        /\ StartFaultApplies(a)
        /\ a.pid # a.dwParentProcessId
        /\ (a.dwParentProcessId \in {None, our_pid} =>
                a.snap = [src |-> "none", wts |-> << >>, pids |-> {}, names |-> << >>])}

Started(D, a, res) ==
    /\ processDict' = res.D
    /\ io' = [op |-> "start_process", dwParentProcessId |-> a.dwParentProcessId,
              pid |-> a.pid, tid |-> a.tid, fault |-> a.fault,
              before |-> D, res |-> res]

StartProcess ==
    /\ scan.pc = "idle"
    /\ io = IdleIo
    /\ \E a \in StartInputs(processDict) :
          Started(processDict, a, start_process(processDict, a))
    /\ torn' = NoTorn
    /\ lk' = IdleLk
    /\ UNCHANGED << memVars, scan, proc >>

\* A tracked process exits while no call is in progress.
ProcessExits ==
    /\ io = IdleIo
    /\ NotifyExitProcess

StartNext ==
    \/ StartProcess
    \/ ProcessExits
    \/ ScanReturn
    \/ IoReturn

SpecStart == ScanInitState /\ [][StartNext]_vars

\* ------------------------------------------- the typed peek and poke
\* A byte of the model holds one of the values of Bytes; the sizes in bytes
\* are those of Windows: ctypes.sizeof(c_type) and struct.calcsize(format)
\* (long and DWORD 4, QWORD 8, a pointer of a 64 bit process 8).
Radix == Cardinality(Bytes)
RECURSIVE Pow(_, _)
Pow(b, n) == IF n = 0 THEN 1 ELSE b * Pow(b, n - 1)

sizeof(c_type) ==
    CASE c_type \in {"c_int", "c_uint", "DWORD"} -> 4
      [] c_type \in {"QWORD", "c_void_p"} -> 8
calcsize(format) ==
    CASE format \in {"@l", "@L", "=L"} -> 4
      [] format \in {"=Q", "@P"} -> 8
FormatRange(format) ==
    IF format = "@l"
    THEN (0 - (Pow(Radix, calcsize(format)) \div 2))
            .. ((Pow(Radix, calcsize(format)) - 1) \div 2)
    ELSE 0 .. (Pow(Radix, calcsize(format)) - 1)

\* struct.pack(format, v): the bytes of v, lowest first, or struct.error
\* when v is out of the range of the format.
struct_pack(format, v) ==
    IF v \notin FormatRange(format)
    THEN [err |-> "struct.error", packed |-> << >>]
    ELSE [err |-> "none",
          packed |-> [i \in 1 .. calcsize(format) |->
                         (((v + Pow(Radix, calcsize(format)))
                              % Pow(Radix, calcsize(format)))
                          \div Pow(Radix, i - 1)) % Radix]]

\* struct.unpack(format, packed)[0].
RECURSIVE Unsigned(_, _)
Unsigned(packed, n) ==
    IF n = 0 THEN 0 ELSE packed[n] * Pow(Radix, n - 1) + Unsigned(packed, n - 1)
struct_unpack(format, packed) ==
    IF format = "@l" /\ Unsigned(packed, Len(packed)) \notin FormatRange(format)
    THEN Unsigned(packed, Len(packed)) - Pow(Radix, Len(packed))
    ELSE Unsigned(packed, Len(packed))

\* Process.__peek_c_type on readable memory: peek returns size bytes.
peek_c_type(memory, format, c_type) ==
    struct_unpack(format, SubSeq(memory, 1, sizeof(c_type)))

\* Process.__poke_c_type: the bytes handed to poke.
poke_c_type(format, unpacked) == struct_pack("@L", unpacked)

\* The helpers: peek_X and poke_X call the two with this format and type.
TypedHelpers ==
    {[name |-> "int", format |-> "@l", c_type |-> "c_int"],
     [name |-> "uint", format |-> "@L", c_type |-> "c_uint"],
     [name |-> "dword", format |-> "=L", c_type |-> "DWORD"],
     [name |-> "qword", format |-> "=Q", c_type |-> "QWORD"],
     [name |-> "pointer", format |-> "@P", c_type |-> "c_void_p"]}

\* Writable memory at the address, as long as the widest type, before the
\* poke: zeroes, or the highest byte everywhere.
TypedMemory ==
    {[i \in 1 .. sizeof("QWORD") |-> b] : b \in {0, Radix - 1}}

\* poke on writable memory stores the buffer at the address.
Stored(memory, packed) ==
    [i \in 1 .. Len(memory) |-> IF i <= Len(packed) THEN packed[i] ELSE memory[i]]

\* poke_X(a, v), then peek_X(a) when the poke did not raise.
Typed(x, v, memory, p) ==
    [op |-> "poke_peek", helper |-> x.name, v |-> v, err |-> p.err,
     written |-> Len(p.packed),
     got |-> IF p.err = "none"
             THEN peek_c_type(Stored(memory, p.packed), x.format, x.c_type)
             ELSE 0]

PokePeek ==
    \E x \in TypedHelpers, memory \in TypedMemory :
    \E v \in FormatRange(x.format) :
        /\ io = IdleIo
        /\ io' = Typed(x, v, memory, poke_c_type(x.format, v))
        /\ UNCHANGED mem
        /\ IoFrame

TypedNext ==
    \/ PokePeek
    \/ IoReturn

SpecTyped == MapInit /\ [][TypedNext]_vars

\* ---------------------------------- Process.suspend and Process.resume
\* The suspend counts the calls are tried on stay below this.
MaxSuspend == 2

ThreadsFrame ==
    UNCHANGED << mem, snapshot, rs, ext, h, processDict, scan, torn, lk, proc >>

\* What a call of suspend or resume did: r is its outcome.
ThreadsDone(op, scanOk, failS, failR, r) ==
    /\ susp' = r.susp
    /\ threads' = r.threads
    /\ io' = [op |-> op, scanOk |-> scanOk, failS |-> failS, failR |-> failR,
              before |-> susp, had |-> threads, err |-> r.err]

\* Process.suspend(): any of the calls on the threads may fail, those of the
\* roll-back too.
Suspend ==
    \E scanOk \in BOOLEAN, failS \in SUBSET Tids, failR \in SUBSET Tids :
        /\ io = IdleIo
        /\ \A t \in Tids : susp[t] < MaxSuspend
        /\ ThreadsDone("suspend", scanOk, failS, failR,
                       Process_suspend(threads, susp, scanOk, failS, failR))
        /\ ThreadsFrame

\* Process.resume().
Resume ==
    \E scanOk \in BOOLEAN, failS \in SUBSET Tids, failR \in SUBSET Tids :
        /\ io = IdleIo
        /\ ThreadsDone("resume", scanOk, failS, failR,
                       Process_resume(threads, susp, scanOk, failS, failR))
        /\ ThreadsFrame

ThreadsNext ==
    \/ Suspend
    \/ Resume
    \/ IoReturn

SpecThreads == MapInit /\ [][ThreadsNext]_vars

\* ============================================================ statements
IsCaptured(arg) == arg.isList /\ arg.items = snapshot /\ snapshot # << >>
AllMbi(arg) == \A i \in 1 .. Len(arg.items) : arg.items[i].isMbi
PageBytes(M, p) == [i \in 0 .. (PageSize - 1) |-> M.by[p * PageSize + i]]
IsStateCall(c) == c.op \in {"VirtualAllocEx", "VirtualFreeEx"}
IsWriteCall(c) == c.op = "WriteProcessMemory"
HasCall(calls, c) == \E i \in 1 .. Len(calls) : calls[i] = c

TableAction(newState, old) ==
    LET alloc(kind) == << Call("VirtualAllocEx", old.BaseAddress, old.RegionSize,
                               kind, old.Protect, << >>) >>
        free(kind) == << Call("VirtualFreeEx", old.BaseAddress, old.RegionSize,
                              kind, "", << >>) >>
    IN  CASE newState = old.State -> << >>
          [] newState = "MEM_FREE" /\ old.State = "MEM_RESERVE" -> alloc("MEM_RESERVE")
          [] newState = "MEM_FREE" /\ old.State = "MEM_COMMIT" -> alloc("MEM_RESERVE|MEM_COMMIT")
          [] newState = "MEM_RESERVE" /\ old.State = "MEM_COMMIT" -> alloc("MEM_COMMIT")
          [] newState = "MEM_RESERVE" /\ old.State = "MEM_FREE" -> free("MEM_RELEASE")
          [] newState = "MEM_COMMIT" /\ old.State = "MEM_RESERVE" -> free("MEM_DECOMMIT")
          [] newState = "MEM_COMMIT" /\ old.State = "MEM_FREE" -> free("MEM_DECOMMIT|MEM_RELEASE")

\* C3: for every pair of current and captured state a region restore issues
\* exactly the allocate / free call of the transition table, at the captured
\* base address with the captured size and protection, and none when the
\* states are equal.  The only other allocate / free call it ever issues is
\* the release of an allocation that the system placed at another address.
C3_TransitionTable ==
    h.step.kind = "mbi" =>
        LET st == h.step
            sc == SelectSeq(st.calls, IsStateCall)
            tab == TableAction(st.newState, st.old)
        IN  \/ sc = tab
            \/ /\ Len(tab) = 1 /\ tab[1].op = "VirtualAllocEx"
               /\ st.ret # st.old.BaseAddress
               /\ sc = tab \o << Call("VirtualFreeEx", st.ret, 0, "MEM_RELEASE",
                                      "", << >>) >>

C3_Witness ==
    /\ h.step.kind = "mbi"
    /\ h.step.newState = "MEM_COMMIT" /\ h.step.old.State = "MEM_RESERVE"
    /\ h.step.err = "none"
    /\ h.step.calls # << >>

\* C4 (as stated): with bSkipMappedFiles=True a region restore that completes
\* writes the captured bytes at the captured base of every region that has
\* content and is private, and issues no write for a region backed by a
\* mapped file or an image.
C4_PrivateContentWritten ==
    (h.step.kind = "mbi" /\ h.step.bSkipMappedFiles /\ h.step.err = "none"
         /\ has_content(h.step.old)) =>
        IF h.step.old.Type = MEM_PRIVATE
        THEN HasCall(h.step.calls,
                     Call("WriteProcessMemory", h.step.old.BaseAddress,
                          Len(h.step.old.content), "", "", h.step.old.content))
        ELSE SelectSeq(h.step.calls, IsWriteCall) = << >>

\* C5 (as stated): a committed read-write private region that was captured and
\* then freed by someone else is, after a restore that met no error, committed
\* again with the captured protection and holds the captured bytes.
C5_FreedRegionRestored ==
    (/\ rs.pc = "done" /\ rs.raised = "none" /\ ~h.failed
     /\ IsCaptured(rs.arg)
     /\ h.extOp.op = "free"
     /\ h.capMem.pg[PageOf(h.extOp.base)] = CommittedPage("PAGE_READWRITE", MEM_PRIVATE)
     /\ \E i \in 1 .. Len(rs.arg.items) :
            /\ rs.arg.items[i].BaseAddress = h.extOp.base
            /\ rs.arg.items[i].RegionSize = h.extOp.size) =>
        \A p \in PagesOfRange(h.extOp.base, h.extOp.size) :
            /\ mem.pg[p].State = "MEM_COMMIT"
            /\ mem.pg[p].Protect = "PAGE_READWRITE"
            /\ PageBytes(mem, p) = PageBytes(h.capMem, p)

C7_RejectedBeforeMutation ==
    (rs.pc # "idle" /\ (Len(rs.arg.items) = 0 \/ ~rs.arg.isList \/ ~AllMbi(rs.arg))) =>
        /\ rs.pc = "done"
        /\ rs.raised = "TypeError"
        /\ ~h.everSuspended
        /\ mem = h.memBegin
        /\ susp = h.suspBefore

\* C8 (as stated): with bSkipOnError=True no failure on one region (its query,
\* state change, reprotect or content write) makes the restore raise, and
\* every region of the snapshot is attempted.
C8_LenientNeverRaises ==
    (rs.pc = "done" /\ rs.bSkipOnError /\ AllMbi(rs.arg) /\ h.everSuspended) =>
        /\ h.cause \notin {"query", "region"}
        /\ h.attempted = 1 .. Len(rs.arg.items)

\* C9: with bSkipOnError=False the first region failure ends the loop: the
\* error reaches the caller, no later region is queried or modified, and the
\* memory stays as the restore left it at the failure (nothing is undone).
C9_FirstFailureAborts ==
    (rs.pc # "idle" /\ ~rs.bSkipOnError /\ h.failed) =>
        /\ rs.pc \in {"finally", "done"}
        /\ rs.raised # "none"
        /\ mem = h.memAtFail
        /\ \A i \in h.attempted : i <= rs.idx

C9_Witness ==
    /\ rs.pc = "done" /\ ~rs.bSkipOnError /\ h.failed
    /\ h.cause = "region"
    /\ mem # h.memBegin
    /\ rs.idx < Len(rs.arg.items)

\* C10: when an allocation of the region restore comes back at an address
\* other than the captured one, that allocation is released and the region
\* restore fails with RuntimeError: nothing stays allocated at that address.
C10_StrayAllocationFreed ==
    (h.step.kind = "mbi" /\ h.step.ret # None
         /\ h.step.ret # h.step.old.BaseAddress) =>
        /\ h.step.err = "RuntimeError"
        /\ \A p \in PagesOfRange(h.step.ret, h.step.old.RegionSize) :
               mem.pg[p].State = "MEM_FREE"
        /\ (rs.bSkipOnError \/ rs.raised = "RuntimeError" \/ h.cause = "resume")

C10_Witness ==
    /\ h.step.kind = "mbi" /\ h.step.ret # None
    /\ h.step.ret # h.step.old.BaseAddress
    /\ h.step.old.State = "MEM_COMMIT"
    /\ h.step.newState = "MEM_FREE"

\* C1 (as stated): when scan() has returned, the process IDs in the container,
\* the caller's own aside, are exactly those reported during this scan by a
\* source that was consulted: every reported ID is present, tracked before or
\* not, and no ID that none of the consulted sources reported is present.
C1_ScanReconciles ==
    (scan.pc = "done" /\ scan.raised = "none") =>
        /\ \A pid \in scan.reported \ {our_pid} : pid \in DOMAIN processDict
        /\ \A pid \in DOMAIN processDict \ {our_pid} : pid \in scan.reported


\* C11 (as stated): scan() returns True only if every step succeeded: when the
\* Toolhelp scan failed, or a thread, module or file name step failed for a
\* process, a scan() that returns returns False.
C11_TrueOnlyIfComplete ==
    (scan.pc = "done" /\ scan.raised = "none" /\ scan.failed) => ~scan.result

\* C12 (as stated): scan() never raises: whichever enumeration source fails,
\* scan() returns a boolean.
C12_ScanNeverRaises ==
    scan.pc = "done" => scan.raised = "none"

\* C13 (as stated): when scan() returns, no process that one of the sources
\* consulted in the cycle reported has been torn down during the cycle.
C13_ReportedNotTornDown ==
    (scan.pc = "done" /\ scan.raised = "none") =>
        (scan.purged \cap scan.reported) \ {our_pid} = {}

\* C14 (as stated): a process that has a file name before a scan operation
\* and is in the container after it has a file name after it: for every
\* method that returns in one step, and for scan() from its call to its end.
KeepsNames(D, E) ==
    \A q \in DOMAIN D \cap DOMAIN E : D[q].fileName # "" => E[q].fileName # ""
C14_FileNameKept ==
    /\ [][scan'.pc = "returned" => KeepsNames(processDict, processDict')]_vars
    /\ []((scan.pc = "done" /\ scan.raised = "none") =>
            \A q \in scan.named \cap DOMAIN processDict :
                processDict[q].fileName # "")


C16_TornDownEmptied ==
    \A q \in DOMAIN torn :
        /\ torn[q].hProcess = None /\ torn[q].closed = torn[q].had
        /\ torn[q].threads = {} /\ torn[q].modules = {}


\* C17 (as stated): in a run of lookups with no scan, clear or notification
\* in between, at most one lookup invokes the enumeration sources, also when
\* the sources answered and listed no process.
C17_AutoScanOnce ==
    lk.n <= 1

\* C18: a lookup on a container that is not empty invokes no enumeration
\* source and leaves the container as it is; for an ID that is not in it,
\* get_process raises KeyError and has_process returns False.
C18_NoScanWhenNotEmpty ==
    [][(scan.pc = "idle" /\ lk'.op # "none" /\ processDict # << >>) =>
          /\ ~lk'.scanned
          /\ processDict' = processDict
          /\ (lk'.op = "get_process" /\ lk'.pid \notin DOMAIN processDict)
                 => lk'.ret = "KeyError"
          /\ (lk'.op = "has_process" /\ lk'.pid \notin DOMAIN processDict)
                 => lk'.ret = "False"]_vars

\* get_process of an ID that is not in a container that is not empty.
C18_Witness ==
    /\ lk.op = "get_process" /\ lk.ret = "KeyError" /\ ~lk.scanned
    /\ processDict # << >> /\ lk.pid \notin DOMAIN processDict


IsHeld(hProcess) == hProcess \notin {None, INVALID_HANDLE_VALUE}
OpensOf(calls) == SelectSeq(calls, LAMBDA c : c.op = "OpenProcess")
ClosesOf(calls) == SelectSeq(calls, LAMBDA c : c.op = "CloseHandle")

\* C19: whenever get_handle(R) returns, what it returns is the handle that the
\* Process holds, a handle is held, and its mask includes R (the system
\* grants the mask that OpenProcess is asked for).
C19_HandleHasRights ==
    (proc.op = "get_handle" /\ ~proc.raised) =>
        /\ proc.ret = proc.hProcess
        /\ IsHeld(proc.hProcess)
        /\ proc.retAccess = proc.dwAccess
        /\ proc.arg \subseteq proc.dwAccess

\* get_handle returned a new handle because the one held lacked a right.
C19_Witness ==
    /\ proc.op = "get_handle" /\ ~proc.raised
    /\ IsHeld(proc.before.hProcess)
    /\ ~(proc.arg \subseteq proc.before.dwAccess)
    /\ proc.hProcess # proc.before.hProcess
    /\ proc.arg \subseteq proc.dwAccess

\* C20: a get_handle(R) on a Process that holds a handle: if the mask held
\* includes R, no handle is opened or closed and the handle held is the same;
\* otherwise, when the call returns, exactly one handle was opened, with the
\* mask held | R, and exactly one was closed, the one held before.  After
\* get_handle(R1) and then get_handle(R2) the mask held includes R1 | R2.
C20_GetHandleEffects ==
    (proc.op = "get_handle" /\ IsHeld(proc.before.hProcess)) =>
        /\ proc.arg \subseteq proc.before.dwAccess =>
               /\ proc.calls = << >>
               /\ ~proc.raised
               /\ proc.hProcess = proc.before.hProcess
               /\ proc.dwAccess = proc.before.dwAccess
        /\ (~(proc.arg \subseteq proc.before.dwAccess) /\ ~proc.raised) =>
               /\ Len(proc.calls) = 2
               /\ Len(OpensOf(proc.calls)) = 1
               /\ OpensOf(proc.calls)[1].mask = proc.before.dwAccess \cup proc.arg
               /\ Len(ClosesOf(proc.calls)) = 1
               /\ ClosesOf(proc.calls)[1].handle = proc.before.hProcess
        /\ ~proc.raised => (proc.prev \cup proc.arg) \subseteq proc.dwAccess

\* Two calls of get_handle in a row, the second for a right that the first
\* did not ask for.
C20_Witness ==
    /\ proc.op = "get_handle" /\ ~proc.raised
    /\ proc.prev # {} /\ ~(proc.arg \subseteq proc.prev)
    /\ IsHeld(proc.before.hProcess)
    /\ Len(proc.calls) = 2

\* C21: after every open_handle, get_handle, close_handle and clear, whether
\* OpenProcess or CloseHandle failed or not, no handle is open in the system
\* for this Process but the one it holds, and a handle that it opened itself
\* and still holds is open.
C21_AtMostOneHandle ==
    /\ proc.osOpen \subseteq {proc.hProcess}
    /\ (IsHeld(proc.hProcess) /\ proc.hProcess # GivenHandle) =>
           proc.hProcess \in proc.osOpen

\* open_handle replaced a handle that the Process had opened itself.
C21_Witness ==
    /\ proc.op = "open_handle" /\ ~proc.raised
    /\ IsHeld(proc.before.hProcess) /\ proc.before.hProcess # GivenHandle
    /\ proc.hProcess # proc.before.hProcess
    /\ proc.osOpen = {proc.hProcess}

\* C22: close_handle returns normally whatever CloseHandle did and leaves the
\* Process holding no handle; on a Process that holds none it calls nothing.
C22_CloseNeverRaises ==
    proc.op = "close_handle" =>
        /\ ~proc.raised
        /\ proc.hProcess = None
        /\ ~IsHeld(proc.before.hProcess) => proc.calls = << >>

\* Each region starts where the one before ends, and none is empty: the
\* regions are in increasing order, do not overlap and leave no gap.
Contiguous(out) ==
    /\ \A i \in 1 .. Len(out) : out[i].RegionSize > 0
    /\ \A i \in 1 .. (Len(out) - 1) :
          out[i + 1].BaseAddress = out[i].BaseAddress + out[i].RegionSize
RegionEnd(mbi) == mbi.BaseAddress + mbi.RegionSize

\* C23 as stated: the regions yielded by iter_memory_map for a range are
\* contiguous, and the last one ends at or after the aligned upper bound of
\* the range.
C23_MapTilesRange ==
    (io.op = "iter_memory_map" /\ io.out # << >>) =>
        /\ Contiguous(io.out)
        /\ RegionEnd(io.out[Len(io.out)]) >= io.hi

\* C23 amended: the regions yielded are contiguous from the aligned lower
\* bound on, and the last one ends at or after the aligned upper bound, or at
\* the end of the addresses that the system lets a program query when the
\* range reaches beyond it; nothing is yielded only for a range that is empty
\* or starts beyond those addresses.
C23_MapTiles ==
    io.op = "iter_memory_map" =>
        IF io.out = << >>
        THEN io.lo >= io.hi \/ io.lo >= AddrLimit
        ELSE /\ Contiguous(io.out)
             /\ io.out[1].BaseAddress = io.lo
             /\ \/ RegionEnd(io.out[Len(io.out)]) >= io.hi
                \/ (io.hi > AddrLimit /\ RegionEnd(io.out[Len(io.out)]) = AddrLimit)

\* A map of several regions that ends with the address space, below the
\* upper bound asked for.
C23_Witness ==
    /\ io.op = "iter_memory_map" /\ Len(io.out) >= 2
    /\ io.maxAddr # None /\ io.hi > AddrLimit
    /\ RegionEnd(io.out[Len(io.out)]) = AddrLimit

MapLooping == io.op = "map_loop" /\ io.pc = "loop"

\* C24: whatever the region query answers, an iteration of iter_memory_map
\* that has started ends; it ends without an error when the cursor did not
\* move forward or the query reported invalid parameter.
C24_MapTerminates ==
    /\ MapLooping ~> ~MapLooping
    /\ []((io.op = "map_loop"
            /\ io.why \in {"not increasing", "ERROR_INVALID_PARAMETER"})
           => io.pc = "done")

\* An iteration that yielded regions and ended because an answer did not
\* move the cursor forward.
C24_Witness ==
    /\ io.op = "map_loop" /\ io.pc = "done"
    /\ io.yielded /\ io.why = "not increasing"

\* C25: read succeeds only on a range that is committed and accessible
\* throughout; on any other range it fails with the invalid-address error and
\* ReadProcessMemory is not called.
C25_ReadValidated ==
    io.op = "read" =>
        /\ io.res.err = "none" => AllReadable(mem, io.address, io.size)
        /\ ~AllReadable(mem, io.address, io.size) =>
               (io.res.err = "ERROR_INVALID_ADDRESS" /\ ~io.res.issued)

\* The length of the longest prefix of [a, a + n) whose pages grant reading.
ReadablePrefix(M, a, n) ==
    CHOOSE k \in 0 .. n :
        /\ \A i \in 0 .. (k - 1) : is_readable(VirtualQueryEx(M, a + i))
        /\ (k = n \/ ~is_readable(VirtualQueryEx(M, a + k)))

\* C26: when the system calls of peek do not fail for a reason of their own,
\* peek does not raise and returns exactly the bytes of the longest prefix of
\* the range that lies in readable regions: nothing when the region of the
\* address is not readable.
C26_PeekPrefix ==
    (io.op = "peek" /\ io.fault = "none") =>
        /\ ~io.res.raised
        /\ io.res.data = ReadProcessMemory(mem, io.address,
                              ReadablePrefix(mem, io.address, io.size))

\* A peek that starts in a readable region and stops at a guard page.
C26_Witness ==
    /\ io.op = "peek" /\ io.fault = "none"
    /\ Len(io.res.data) > 0 /\ Len(io.res.data) < io.size
    /\ mem.pg[PageOf(io.address + Len(io.res.data))].Protect = "PAGE_GUARD"
    /\ io.address + Len(io.res.data) = align_address_to_page_start(io.address + io.size - 1)

\* C27 as stated: an error of the system while peek reads a range that the
\* memory map reported readable is raised to the caller.
C27_PeekRaisesOsError ==
    (io.op = "peek" /\ io.fault = "read" /\ io.res.issued) => io.res.raised

\* C27 amended: peek never raises a WindowsError: an error of the system while
\* it queries the memory map or reads a range reported readable is turned
\* into a warning and an empty result, as unreadable memory is.
C27_PeekSwallowsOsError ==
    io.op = "peek" =>
        /\ ~io.res.raised
        /\ (io.fault = "query" \/ (io.fault = "read" /\ io.res.issued)) =>
               (io.res.warned /\ io.res.data = << >>)

\* The read of a range that is readable throughout failed.
C27_Witness ==
    /\ io.op = "peek" /\ io.fault = "read" /\ io.res.issued
    /\ ReadablePrefix(mem, io.address, io.size) = io.size
    /\ io.res.warned /\ ~io.res.raised

ProtectCalls(calls) == SelectSeq(calls, LAMBDA c : c.op = "VirtualProtectEx")

\* C28: poke of a region that is already writable, whatever its type, makes
\* no protection call; poke of a region with content that is not writable
\* first asks for PAGE_WRITECOPY when the region is an image or a mapped file,
\* for PAGE_EXECUTE_READWRITE when it is executable, for PAGE_READWRITE
\* otherwise.
C28_PokeProtection ==
    (io.op = "poke" /\ has_content(io.mbi)) =>
        IF is_writeable(io.mbi)
        THEN ProtectCalls(io.calls) = << >>
        ELSE /\ ProtectCalls(io.calls) # << >>
             /\ io.calls[1].op = "VirtualProtectEx"
             /\ io.calls[1].prot =
                    IF is_image(io.mbi) \/ is_mapped(io.mbi) THEN "PAGE_WRITECOPY"
                    ELSE IF is_executable(io.mbi) THEN "PAGE_EXECUTE_READWRITE"
                    ELSE "PAGE_READWRITE"

\* C29: when poke changed the protection for the write, then after it
\* returned or raised out of the write every page of the range has the
\* protection it had before the call.
C29_PokeRestoresProtection ==
    (io.op = "poke" /\ Len(ProtectCalls(io.calls)) = 2) =>
        \A p \in PagesOfRange(io.address, io.size) :
            mem.pg[p].Protect = io.before[p].Protect

\* C30 as stated: in the list of take_memory_snapshot every region that is
\* not free carries as many bytes as its RegionSize, and every free region
\* carries none.
C30_NotFreeHasPayload ==
    (io.op = "take_memory_snapshot" /\ io.res.err = "none") =>
        \A i \in 1 .. Len(io.res.list) :
            IF is_free(io.res.list[i])
            THEN io.res.list[i].content = << >>
            ELSE Len(io.res.list[i].content) = io.res.list[i].RegionSize

\* C30 amended: every region with content (committed, and neither a guard
\* page nor without access) carries as many bytes as its RegionSize, and every
\* other region (free, reserved, guard or no-access) carries none.
C30_ContentHasPayload ==
    (io.op = "take_memory_snapshot" /\ io.res.err = "none") =>
        \A i \in 1 .. Len(io.res.list) :
            IF has_content(io.res.list[i])
            THEN Len(io.res.list[i].content) = io.res.list[i].RegionSize
            ELSE io.res.list[i].content = << >>

\* A snapshot with a reserved region and a guard page, both without bytes,
\* and a committed region cut to the range with its bytes.
C30_Witness ==
    /\ io.op = "take_memory_snapshot" /\ io.res.err = "none"
    /\ Len(io.res.list) = 3
    /\ is_reserved(io.res.list[1]) /\ io.res.list[1].content = << >>
    /\ io.res.list[2].Protect = "PAGE_GUARD" /\ io.res.list[2].content = << >>
    /\ has_content(io.res.list[3])
    /\ Len(io.res.list[3].content) = io.res.list[3].RegionSize


\* C31 (as stated): when a scan operation has returned, each thread ID is in
\* the thread collection of at most one tracked process, also when the
\* system lists a thread ID under another owner than the one it was tracked
\* under.
C31_ThreadInOneProcess ==
    scan.pc \in {"idle", "done", "returned"} =>
        \A p, q \in DOMAIN processDict :
            p # q => processDict[p].threads \cap processDict[q].threads = {}


\* C32 (as stated): when scan_processes_and_threads or scan_processes raises,
\* the container is as it was before the call: no process was added, removed
\* or renamed and no thread was added or removed.
ScanRaised(gone) == \E q \in DOMAIN gone : gone[q].fault # "none"
C32_RaiseLeavesContainer ==
    [][((ScanProcessesAndThreads \/ ScanProcesses) /\ ScanRaised(torn'))
          => processDict' = processDict]_vars


\* C33 (as stated): is_buffer_executable_and_writeable(address, size) returns
\* True only if every region that overlaps [address, address + size) is both
\* writeable and executable; it returns False when a part of the range is
\* executable and not writeable.
C33_ExecutableAndWriteable ==
    (io.op = "is_buffer_executable_and_writeable" /\ io.res) =>
        \A a \in io.address .. (io.address + io.size - 1) :
            /\ is_executable(VirtualQueryEx(mem, a))
            /\ is_writeable(VirtualQueryEx(mem, a))


\* C34 (as stated): when start_process returns, the Process returned is in
\* the container under its process ID, holds the handle of the new process
\* and contains its main thread; when a step fails after the system created
\* the process, the process is terminated, both of its handles are closed,
\* the error propagates and the container is as it was before the call.
StartReturned ==
    io.op = "start_process" /\ ~io.res.raised =>
        /\ io.pid \in DOMAIN processDict
        /\ processDict[io.pid] = io.res.ret
        /\ io.res.ret.hProcess = ProcessInformation(io.pid, io.tid).hProcess
        /\ io.tid \in io.res.ret.threads
StartRolledBack ==
    (io.op = "start_process" /\ io.res.created /\ io.fault # "none") =>
        /\ io.res.raised
        /\ ~io.res.os.running
        /\ io.res.os.open = {}
C34_StartProcessUnchanged ==
    /\ StartReturned
    /\ StartRolledBack
    /\ (io.op = "start_process" /\ io.res.created /\ io.fault # "none") =>
            processDict = io.before

\* C34 (amended): the same, and when a step fails after the system created
\* the process the container is as it was when the process was created:
\* the call registered nothing for the new process.
C34_StartProcess ==
    /\ StartReturned
    /\ StartRolledBack
    /\ (io.op = "start_process" /\ io.res.created /\ io.fault # "none") =>
            processDict = io.res.atCreate

\* A start_process failed after the process was created, with a process
\* that was still running; and one returned.
C34_Witness ==
    /\ io.op = "start_process" /\ io.res.created /\ io.fault = "debug"
    /\ io.res.raised /\ processDict # << >>
C34_WitnessReturned ==
    /\ io.op = "start_process" /\ ~io.res.raised
    /\ io.dwParentProcessId \notin {None, our_pid}


\* C35: restore_memory_snapshot leaves the list it was given and every
\* descriptor in it (base address, size, state, protection, type, content)
\* as they were, in the direct path and in the page loop alike: the caller's
\* snapshot is the same after every step of a restore.
C35_SnapshotKept ==
    [][rs.pc \in {"loop", "page", "finally"} =>
          (rs'.arg = rs.arg /\ snapshot' = snapshot)]_vars

\* The page loop is at its second page of a captured region, one page having
\* been restored, and the descriptor in the list still spans the region.
C35_Witness ==
    /\ rs.pc = "page"
    /\ rs.address > rs.arg.items[rs.idx].BaseAddress
    /\ rs.arg.items[rs.idx].RegionSize > PageSize
    /\ h.step.kind = "mbi"


\* C36 (as stated): when the region found at the base of a captured region
\* does not have the captured bounds, the page loop brings every page of the
\* captured region [base, base + size) to the captured state, also when the
\* current layout splits that range into regions of different states: when
\* the loop has ended without an error, every page of the range has the
\* state of the descriptor.
C36_PageLoopCoversRegion ==
    [][(rs.pc = "page" /\ rs'.pc = "loop" /\ ~h'.failed) =>
          \A p \in PagesOfRange(rs.arg.items[rs.idx].BaseAddress,
                                rs.arg.items[rs.idx].RegionSize) :
              mem'.pg[p].State = rs.arg.items[rs.idx].State]_vars


\* C37 (as stated): in the page loop the bytes written at a page are the
\* captured bytes at the offset of that page in the captured region, and no
\* write of content reaches past the end of the captured region.
WritesPageOf(c, captured) ==
    /\ c.addr + Len(c.buf) <= captured.BaseAddress + captured.RegionSize
    /\ \A i \in 1 .. Len(c.buf) :
          c.buf[i] = captured.content[c.addr - captured.BaseAddress + i]
C37_PageWrites ==
    [][(rs.pc = "page" /\ rs' # rs) =>
          \A i \in 1 .. Len(h'.step.calls) :
              IsWriteCall(h'.step.calls[i]) =>
                  WritesPageOf(h'.step.calls[i], rs.arg.items[rs.idx])]_vars


\* C38 (as stated): poke_int, poke_uint, poke_dword, poke_qword and
\* poke_pointer write the value in the width and format of the helper: on
\* writable memory poke_X(a, v) followed by peek_X(a) returns v for every v
\* in the range of the type, and poke_qword writes 8 bytes.
C38_TypedRoundTrip ==
    io.op = "poke_peek" =>
        /\ io.err = "none"
        /\ io.got = io.v
        /\ (io.helper = "qword" => io.written = sizeof("QWORD"))


\* The threads that a call had dealt with when a thread of bad failed:
\* threads are visited in the order of their IDs.
DoneBefore(all, bad) == {t \in all : \A b \in all \cap bad : t < b}
SuspendFailed ==
    io.op = "suspend" /\ io.scanOk /\ Tids \cap io.failS # {}
ResumeFailed ==
    /\ io.op = "resume" /\ (io.had # {} \/ io.scanOk)
    /\ threads \cap io.failR # {}

\* C39 (as stated): when Process.suspend fails at a thread, every thread it
\* had suspended is resumed before the error propagates, so that the suspend
\* count of each thread is what it was before the call; and a failed
\* Process.resume suspends again the threads it had resumed.
C39_FailedSuspendRestores ==
    /\ SuspendFailed =>
          (io.err # "none" /\ susp = io.before)
    /\ ResumeFailed =>
          /\ io.err # "none"
          /\ \A t \in DoneBefore(threads, io.failR) :
                susp[t] = ThreadSuspend(ThreadResume(io.before, t), t)[t]

\* C39 (amended): the same for every thread whose roll-back call does not
\* fail itself; a roll-back call that fails is passed over, and that thread
\* stays as the first pass left it.
C39_FailedSuspendRollsBack ==
    /\ SuspendFailed =>
          /\ io.err # "none"
          /\ \A t \in Tids :
                susp[t] = IF t \in DoneBefore(Tids, io.failS) /\ t \in io.failR
                          THEN io.before[t] + 1
                          ELSE io.before[t]
    /\ ResumeFailed =>
          /\ io.err # "none"
          /\ \A t \in DoneBefore(threads, io.failR) :
                susp[t] = IF t \in io.failS
                          THEN ThreadResume(io.before, t)[t]
                          ELSE ThreadSuspend(ThreadResume(io.before, t), t)[t]

\* A suspend failed at the second thread after it had suspended the first,
\* which was suspended before the call too, and the roll-back resumed it.
C39_Witness ==
    /\ SuspendFailed
    /\ DoneBefore(Tids, io.failS) # {}
    /\ io.failR = {}
    /\ \E t \in DoneBefore(Tids, io.failS) : io.before[t] > 0 /\ susp[t] = io.before[t]


\* C40: when win32.OpenProcess fails inside open_handle or get_handle, the
\* error propagates to the caller, the Process holds the handle and the
\* access mask it held before the call, and the handle held was not closed.
OpenFailed ==
    /\ proc.op \in {"open_handle", "get_handle"}
    /\ \E i \in 1 .. Len(proc.calls) :
          proc.calls[i].op = "OpenProcess" /\ ~proc.calls[i].ok
C40_FailedOpenKeepsHandle ==
    OpenFailed =>
        /\ proc.raised
        /\ proc.hProcess = proc.before.hProcess
        /\ proc.dwAccess = proc.before.dwAccess
        /\ \A i \in 1 .. Len(proc.calls) : proc.calls[i].op # "CloseHandle"

\* get_handle asked for a right that the open handle held lacks, the system
\* refused the new handle, and the handle held before is held and open.
C40_Witness ==
    /\ OpenFailed
    /\ proc.op = "get_handle"
    /\ proc.before.hProcess \in proc.osOpen
    /\ proc.hProcess = proc.before.hProcess
    /\ proc.raised

====
